---- MODULE Spec2Model ----
(***************************************************************************)
(* Session / proposal coordination core of the personal assistant bot:     *)
(* bot.py (conversation store, agent loop, confirmation flow), session.py  *)
(* (freshness tracking), tools.py (proposal tools, execution dispatcher).  *)
(*                                                                         *)
(* Handlers run one at a time (the chat transport dispatches updates       *)
(* sequentially and llm_handler.chat is a blocking call), so a handler     *)
(* that calls the LLM is split at its LLM calls and pc records where it    *)
(* stands; no other handler runs while pc is not idle.  Wall-clock time    *)
(* (datetime.now(), in minutes) may advance between any two steps.         *)
(***************************************************************************)
EXTENDS Integers, Sequences, FiniteSets, Bags, TLC

\* ------------------------------------------------------------------ bounds
MaxTime == 2
MaxTexts == 2
MaxToolCalls == 2
LoopToolCalls == 5
LoopCallsPerResponse == 1

\* ------------------------------------------------------- program constants
FRESHNESS_TTL == 2
MAX_CONVERSATION_MESSAGES == 20
\* one iteration more than max_iterations = 5
max_iterations_more == 5 + 1
max_iterations == 5
NoneTime == -1

Users == {1}
None == "None"

VARIABLES
    now,               \* datetime.now(), minutes
    conversations,     \* bot.conversations: user -> list of messages
    pending_proposals, \* bot.pending_proposals: user -> queue (absent = <<>>)
    sessions,          \* session.sessions: user -> SessionState
    pc,                \* the handler in progress and its position
    display,           \* user -> the last message the bot showed that user
    buttons,           \* user -> the confirmation messages whose buttons are still
                       \*   there, each named by the tool-call id of its proposal
    mutation_calls,    \* calls received by the mutation collaborator (google_api)
    llm_calls,         \* llm_handler.chat calls made by the handler run in progress / last run
    last_call_id,      \* last tool-call id issued by the LLM collaborator
    texts_sent,        \* number of user texts received so far
    unhandled,         \* the users one of whose handlers ended by an exception
                       \*   that nothing caught
    users,             \* database table users: user_id -> row
    sent_reminders,    \* database table sent_reminders: set of rows
    job_queue,         \* application.job_queue: the scheduled jobs, in order
    delivered,         \* bag of the notifications context.bot.send_message delivered
    today              \* the date in DEFAULT_TIMEZONE, in days

\* what the notification jobs and the settings work on
storage == <<users, sent_reminders, job_queue, delivered, today>>

vars == <<now, conversations, pending_proposals, sessions, pc, display, buttons,
          mutation_calls, llm_calls, last_call_id, texts_sent, unhandled, users,
          sent_reminders, job_queue, delivered, today>>

\* ------------------------------------------------------------ conversation

HumanMessage == [type |-> "human"]
AIMessage(content, tool_calls) ==
    [type |-> "ai", content |-> content, tool_calls |-> tool_calls]
create_tool_message(tool_call_id, content) ==
    [type |-> "tool", tool_call_id |-> tool_call_id, content |-> content]

\* conv[:MAX] in place of conv[-MAX:]: the newest messages are dropped
add_message_keeps_oldest(conv, message) ==
    LET c == Append(conv, message)
    IN  IF Len(c) > MAX_CONVERSATION_MESSAGES
        THEN SubSeq(c, 1, MAX_CONVERSATION_MESSAGES)
        ELSE c

add_message(conv, message) ==
    LET c == Append(conv, message)
    IN  IF Len(c) > MAX_CONVERSATION_MESSAGES
        THEN SubSeq(c, Len(c) - MAX_CONVERSATION_MESSAGES + 1, Len(c))
        ELSE c

\* ----------------------------------------------------------------- session

SessionState == [allowed_event_ids |-> {}, allowed_task_ids |-> {},
                 calendar_fetched_at |-> NoneTime, tasks_fetched_at |-> NoneTime]

\* a calendar still fresh at exactly the TTL
is_calendar_fresh_le(s, t) ==
    IF s.calendar_fetched_at = NoneTime THEN FALSE
    ELSE t - s.calendar_fetched_at <= FRESHNESS_TTL

is_calendar_fresh(s, t) ==
    IF s.calendar_fetched_at = NoneTime THEN FALSE
    ELSE t - s.calendar_fetched_at < FRESHNESS_TTL

\* "<=" in place of "<"
is_tasks_fresh_le(s, t) ==
    IF s.tasks_fetched_at = NoneTime THEN FALSE
    ELSE t - s.tasks_fetched_at <= FRESHNESS_TTL

is_tasks_fresh(s, t) ==
    IF s.tasks_fetched_at = NoneTime THEN FALSE
    ELSE t - s.tasks_fetched_at < FRESHNESS_TTL

\* a calendar read that stamps the tasks as fetched too
update_from_calendar_read_stamps_both(s, events, t) ==
    [s EXCEPT !.allowed_event_ids = {e \in events : e # ""},
              !.calendar_fetched_at = t, !.tasks_fetched_at = t]

\* a read result is the list of the ids of the items returned
update_from_calendar_read(s, events, t) ==
    [s EXCEPT !.allowed_event_ids = {e \in events : e # ""},
              !.calendar_fetched_at = t]

\* the ids read are added to the allowed set
update_from_tasks_read_merged(s, tasks, t) ==
    [s EXCEPT !.allowed_task_ids = @ \cup {x \in tasks : x # ""},
              !.tasks_fetched_at = t]

update_from_tasks_read(s, tasks, t) ==
    [s EXCEPT !.allowed_task_ids = {x \in tasks : x # ""},
              !.tasks_fetched_at = t]

StaleCalendar == "Calendar data is stale"
UnknownEvent == "Event ID not found in recent calendar fetch"
StaleTasks == "Task data is stale"
UnknownTask == "Task ID not found in recent tasks fetch"

validate_event_proposal(s, event_id, t) ==
    IF ~is_calendar_fresh(s, t) THEN [valid |-> FALSE, error |-> StaleCalendar]
    ELSE IF event_id \notin s.allowed_event_ids
         THEN [valid |-> FALSE, error |-> UnknownEvent]
         ELSE [valid |-> TRUE, error |-> ""]

\* membership tested before freshness
validate_task_proposal_member_first(s, task_id, t) ==
    IF task_id \notin s.allowed_task_ids
    THEN [valid |-> FALSE, error |-> UnknownTask]
    ELSE IF ~is_tasks_fresh(s, t) THEN [valid |-> FALSE, error |-> StaleTasks]
         ELSE [valid |-> TRUE, error |-> ""]

validate_task_proposal(s, task_id, t) ==
    IF ~is_tasks_fresh(s, t) THEN [valid |-> FALSE, error |-> StaleTasks]
    ELSE IF task_id \notin s.allowed_task_ids
         THEN [valid |-> FALSE, error |-> UnknownTask]
         ELSE [valid |-> TRUE, error |-> ""]

\* clear() that leaves tasks_fetched_at as it was
SessionClear_keeps_stamp(s) ==
    [s EXCEPT !.allowed_event_ids = {}, !.allowed_task_ids = {},
              !.calendar_fetched_at = NoneTime]

SessionClear(s) ==
    [s EXCEPT !.allowed_event_ids = {}, !.allowed_task_ids = {},
              !.calendar_fetched_at = NoneTime, !.tasks_fetched_at = NoneTime]

\* ------------------------------------------------------------------- tools

READ_TOOLS == {"get_calendar_events", "get_today_events", "get_tasks"}

PROPOSAL_TOOL_NAMES ==
    {"propose_create_task", "propose_edit_task", "propose_delete_task",
     "propose_complete_task", "propose_create_event", "propose_edit_event",
     "propose_delete_event"}

propose_create_task(a) ==
    [proposal_type |-> "create_task", title |-> a.title, notes |-> a.notes,
     due_date |-> a.due_date]

propose_edit_task(a) ==
    [proposal_type |-> "edit_task", task_id |-> a.task_id,
     current_title |-> a.current_title, tasklist_id |-> a.tasklist_id,
     new_title |-> a.title, new_notes |-> a.notes, new_due_date |-> a.due_date]

propose_delete_task(a) ==
    [proposal_type |-> "delete_task", task_id |-> a.task_id,
     task_title |-> a.task_title, tasklist_id |-> a.tasklist_id]

propose_complete_task(a) ==
    [proposal_type |-> "complete_task", task_id |-> a.task_id,
     task_title |-> a.task_title, tasklist_id |-> a.tasklist_id]

propose_create_event(a) ==
    [proposal_type |-> "create_event", title |-> a.title, date |-> a.date,
     time |-> a.time, duration_minutes |-> a.duration_minutes,
     location |-> a.location, description |-> a.description]

propose_edit_event(a) ==
    [proposal_type |-> "edit_event", event_id |-> a.event_id,
     current_title |-> a.current_title, current_datetime |-> a.current_datetime,
     new_title |-> a.new_title, new_date |-> a.new_date,
     new_start_time |-> a.new_start_time, new_end_time |-> a.new_end_time,
     new_description |-> a.new_description, new_location |-> a.new_location]

propose_delete_event(a) ==
    [proposal_type |-> "delete_event", event_id |-> a.event_id,
     event_title |-> a.event_title, event_datetime |-> a.event_datetime]

\* proposal_tool.invoke(tool_args) for the tool named tool_name
InvokeProposalTool(tool_name, a) ==
    CASE tool_name = "propose_create_task" -> propose_create_task(a)
      [] tool_name = "propose_edit_task" -> propose_edit_task(a)
      [] tool_name = "propose_delete_task" -> propose_delete_task(a)
      [] tool_name = "propose_complete_task" -> propose_complete_task(a)
      [] tool_name = "propose_create_event" -> propose_create_event(a)
      [] tool_name = "propose_edit_event" -> propose_edit_event(a)
      [] tool_name = "propose_delete_event" -> propose_delete_event(a)

\* ---------------------------------------------------- execution dispatcher

\* the keys execute_confirmed_proposal reads with proposal[...]: a proposal
\* without one of them raises KeyError before any call is made
RequiredKeys(proposal_type) ==
    CASE proposal_type = "create_task" -> {"title"}
      [] proposal_type \in {"edit_task", "delete_task", "complete_task"} -> {"task_id"}
      [] proposal_type = "create_event" -> {"title", "date"}
      [] proposal_type \in {"edit_event", "delete_event"} -> {"event_id"}
      [] OTHER -> {}

RaisesKeyError(proposal) ==
    ~(RequiredKeys(proposal.proposal_type) \subseteq DOMAIN proposal)

\* delete_task called with the title shown to the user as well
delete_task_call_titled(proposal) ==
    [fn |-> "delete_task", task_id |-> proposal.task_id,
     tasklist_id |-> proposal.tasklist_id, title |-> proposal.task_title]

delete_task_call(proposal) ==
    [fn |-> "delete_task", task_id |-> proposal.task_id,
     tasklist_id |-> proposal.tasklist_id]

\* complete_task dispatched to delete_task
MutationCallsOf_complete_deletes(proposal) ==
    LET t == proposal.proposal_type
    IN  CASE RaisesKeyError(proposal) -> << >>
          [] t = "create_task" ->
               << [fn |-> "create_task", title |-> proposal.title,
                   notes |-> proposal.notes, due_date |-> proposal.due_date] >>
          [] t = "edit_task" ->
               << [fn |-> "edit_task", task_id |-> proposal.task_id,
                   tasklist_id |-> proposal.tasklist_id, title |-> proposal.new_title,
                   notes |-> proposal.new_notes, due_date |-> proposal.new_due_date] >>
          [] t = "delete_task" -> << delete_task_call(proposal) >>
          [] t = "complete_task" ->
               << [fn |-> "delete_task", task_id |-> proposal.task_id,
                   tasklist_id |-> proposal.tasklist_id] >>
          [] t = "create_event" ->
               << [fn |-> "create_event", title |-> proposal.title,
                   date |-> proposal.date, time |-> proposal.time,
                   duration_minutes |-> proposal.duration_minutes,
                   location |-> proposal.location,
                   description |-> proposal.description] >>
          [] t = "edit_event" ->
               << [fn |-> "edit_event", event_id |-> proposal.event_id,
                   title |-> proposal.new_title, date |-> proposal.new_date,
                   start_time |-> proposal.new_start_time,
                   end_time |-> proposal.new_end_time,
                   description |-> proposal.new_description,
                   location |-> proposal.new_location] >>
          [] t = "delete_event" ->
               << [fn |-> "delete_event", event_id |-> proposal.event_id] >>
          [] OTHER -> << >>

\* The google_api call execute_confirmed_proposal makes for a proposal
\* (the empty sequence when it makes none).
MutationCallsOf(proposal) ==
    LET t == proposal.proposal_type
    IN  CASE RaisesKeyError(proposal) -> << >>
          [] t = "create_task" ->
               << [fn |-> "create_task", title |-> proposal.title,
                   notes |-> proposal.notes, due_date |-> proposal.due_date] >>
          [] t = "edit_task" ->
               << [fn |-> "edit_task", task_id |-> proposal.task_id,
                   tasklist_id |-> proposal.tasklist_id, title |-> proposal.new_title,
                   notes |-> proposal.new_notes, due_date |-> proposal.new_due_date] >>
          [] t = "delete_task" -> << delete_task_call(proposal) >>
          [] t = "complete_task" ->
               << [fn |-> "complete_task", task_id |-> proposal.task_id,
                   tasklist_id |-> proposal.tasklist_id] >>
          [] t = "create_event" ->
               << [fn |-> "create_event", title |-> proposal.title,
                   date |-> proposal.date, time |-> proposal.time,
                   duration_minutes |-> proposal.duration_minutes,
                   location |-> proposal.location,
                   description |-> proposal.description] >>
          [] t = "edit_event" ->
               << [fn |-> "edit_event", event_id |-> proposal.event_id,
                   title |-> proposal.new_title, date |-> proposal.new_date,
                   start_time |-> proposal.new_start_time,
                   end_time |-> proposal.new_end_time,
                   description |-> proposal.new_description,
                   location |-> proposal.new_location] >>
          [] t = "delete_event" ->
               << [fn |-> "delete_event", event_id |-> proposal.event_id] >>
          [] OTHER -> << >>

\* the collaborator's failure is not looked at
execute_confirmed_proposal_hides_failure(proposal, api_ok) ==
    IF RaisesKeyError(proposal) THEN [error |-> "KeyError"]
    ELSE IF MutationCallsOf(proposal) = << >>
    THEN [error |-> "Unknown proposal type"]
    ELSE [success |-> TRUE, message |-> "done"]

\* The dict execute_confirmed_proposal returns; api_ok is the collaborator's
\* outcome (google_api returns success False with the error on failure).
execute_confirmed_proposal(proposal, api_ok) ==
    IF RaisesKeyError(proposal) THEN [error |-> "KeyError"]
    ELSE IF MutationCallsOf(proposal) = << >>
    THEN [error |-> "Unknown proposal type"]
    ELSE IF api_ok THEN [success |-> TRUE, message |-> "done"]
         ELSE [success |-> FALSE, error |-> "api error"]

\* ------------------------------------------------- collaborators' requests

EventIds == {"e1"}
TaskIds == {"t1"}

NoArgs == << >>

\* What the LLM may request in one tool call, with (for a read) what the
\* read collaborator returns for it: the ids of the items of the result.
ReadRequests ==
    {[name |-> n, args |-> [days_ahead |-> 7], result |-> r] :
        n \in {"get_calendar_events"}, r \in SUBSET EventIds}
    \cup {[name |-> n, args |-> NoArgs, result |-> r] :
        n \in {"get_today_events"}, r \in SUBSET EventIds}
    \cup {[name |-> n, args |-> NoArgs, result |-> r] :
        n \in {"get_tasks"}, r \in SUBSET TaskIds}

CreateRequests ==
    {[name |-> "propose_create_task", result |-> {},
      args |-> [title |-> "T", notes |-> "", due_date |-> None]],
     [name |-> "propose_create_event", result |-> {},
      args |-> [title |-> "T", date |-> "D", time |-> None, duration_minutes |-> 60,
                location |-> "", description |-> ""]]}

TaskRequests ==
    {[name |-> "propose_edit_task", result |-> {},
      args |-> [task_id |-> i, current_title |-> "cur", tasklist_id |-> "L",
                title |-> "new", notes |-> None, due_date |-> None]] :
        i \in TaskIds \cup {""}}
    \cup {[name |-> n, result |-> {},
           args |-> [task_id |-> i, task_title |-> "cur", tasklist_id |-> "L"]] :
        n \in {"propose_delete_task", "propose_complete_task"}, i \in TaskIds \cup {""}}

EventRequests ==
    {[name |-> "propose_edit_event", result |-> {},
      args |-> [event_id |-> i, current_title |-> "cur", current_datetime |-> "when",
                new_title |-> "new", new_date |-> None, new_start_time |-> None,
                new_end_time |-> None, new_description |-> None,
                new_location |-> None]] :
        i \in EventIds \cup {""}}
    \cup {[name |-> "propose_delete_event", result |-> {},
           args |-> [event_id |-> i, event_title |-> "cur", event_datetime |-> "when"]] :
        i \in EventIds \cup {""}}

AllRequests == ReadRequests \cup CreateRequests \cup TaskRequests \cup EventRequests

\* the requests the LLM and read collaborators make in Spec
MainMenu ==
    {r \in AllRequests :
        r.name \in {"get_tasks", "propose_create_task", "propose_delete_task"}
        \/ (r.name = "get_calendar_events" /\ r.result # {})
        \/ (r.name = "propose_edit_event" /\ r.args.event_id # "")}

RECURSIVE SeqsUpTo(_, _)
SeqsUpTo(S, n) ==
    IF n = 0 THEN {<< >>}
    ELSE LET shorter == SeqsUpTo(S, n - 1)
         IN  shorter \cup {Append(q, x) : q \in shorter, x \in S}

\* The tool calls of an AIMessage for the requests reqs, ids issued from base + 1
ToolCalls(reqs, base) ==
    [i \in 1..Len(reqs) |->
        [name |-> reqs[i].name, args |-> reqs[i].args, id |-> base + i]]

\* ---------------------------------------------------------- the agent loop

\* bot.py 233-247 / 555-566: the validation error of a proposal tool call
\* ("" when there is none)
\* create proposals held to the freshness of their kind as well
ValidationError_creates_checked(user_session, tool_name, tool_args, t) ==
    IF tool_name \in {"propose_edit_event", "propose_delete_event"}
    THEN IF "event_id" \in DOMAIN tool_args /\ tool_args.event_id # ""
         THEN LET v == validate_event_proposal(user_session, tool_args.event_id, t)
              IN  IF ~v.valid THEN v.error ELSE ""
         ELSE ""
    ELSE IF tool_name \in {"propose_edit_task", "propose_delete_task",
                           "propose_complete_task"}
         THEN IF "task_id" \in DOMAIN tool_args /\ tool_args.task_id # ""
              THEN LET v == validate_task_proposal(user_session, tool_args.task_id, t)
                   IN  IF ~v.valid THEN v.error ELSE ""
              ELSE ""
         ELSE IF tool_name = "propose_create_task" /\ ~is_tasks_fresh(user_session, t)
              THEN StaleTasks
              ELSE IF tool_name = "propose_create_event"
                      /\ ~is_calendar_fresh(user_session, t)
                   THEN StaleCalendar
                   ELSE ""

ValidationError(user_session, tool_name, tool_args, t) ==
    IF tool_name \in {"propose_edit_event", "propose_delete_event"}
    THEN IF "event_id" \in DOMAIN tool_args /\ tool_args.event_id # ""
         THEN LET v == validate_event_proposal(user_session, tool_args.event_id, t)
              IN  IF ~v.valid THEN v.error ELSE ""
         ELSE ""
    ELSE IF tool_name \in {"propose_edit_task", "propose_delete_task",
                           "propose_complete_task"}
         THEN IF "task_id" \in DOMAIN tool_args /\ tool_args.task_id # ""
              THEN LET v == validate_task_proposal(user_session, tool_args.task_id, t)
                   IN  IF ~v.valid THEN v.error ELSE ""
              ELSE ""
         ELSE ""

\* the arguments the args schema of a tool requires (schemas.py)
RequiredArgs(tool_name) ==
    CASE tool_name = "propose_create_task" -> {"title"}
      [] tool_name = "propose_edit_task" -> {"task_id", "current_title", "tasklist_id"}
      [] tool_name \in {"propose_delete_task", "propose_complete_task"} ->
             {"task_id", "task_title", "tasklist_id"}
      [] tool_name = "propose_create_event" -> {"title", "date"}
      [] tool_name = "propose_edit_event" ->
             {"event_id", "current_title", "current_datetime"}
      [] tool_name = "propose_delete_event" ->
             {"event_id", "event_title", "event_datetime"}
      [] OTHER -> {}

\* next(t for t in ... if t.name == tool_name) finds no tool (StopIteration),
\* or tool.invoke(tool_args) rejects the arguments (ValidationError)
InvokeRaises(tool_call) ==
    \/ tool_call.name \notin READ_TOOLS \cup PROPOSAL_TOOL_NAMES
    \/ ~(RequiredArgs(tool_call.name) \subseteq DOMAIN tool_call.args)

\* a rejected proposal is skipped without a ToolResult
ProcessToolCall_rejection_dropped(tool_call, result, st, t, action_required) ==
    IF st.raised THEN st
    ELSE IF tool_call.name \in PROPOSAL_TOOL_NAMES
    THEN IF ValidationError(st.session, tool_call.name, tool_call.args, t) # ""
         THEN st
         ELSE IF InvokeRaises(tool_call) THEN [st EXCEPT !.raised = TRUE]
         ELSE [st EXCEPT !.proposals_to_queue = Append(@,
                   [proposal |-> InvokeProposalTool(tool_call.name, tool_call.args),
                    tool_call_id |-> tool_call.id,
                    tool_name |-> tool_call.name])]
    ELSE IF InvokeRaises(tool_call) THEN [st EXCEPT !.raised = TRUE]
    ELSE LET s2 == IF tool_call.name \in {"get_calendar_events", "get_today_events"}
                   THEN update_from_calendar_read(st.session, result, t)
                   ELSE IF tool_call.name = "get_tasks"
                        THEN update_from_tasks_read(st.session, result, t)
                        ELSE st.session
         IN  [st EXCEPT !.session = s2,
                        !.conv = add_message(@, create_tool_message(tool_call.id,
                                     [items |-> result]))]

\* One pass of the body of "for tool_call in ai_msg.tool_calls" over tool_call,
\* on st = [conv, session, proposals_to_queue, raised]; result is what the
\* read collaborator returns if tool_call names a read tool.  Once an
\* exception is raised the rest of the loop is not run.
ProcessToolCall(tool_call, result, st, t, action_required) ==
    IF st.raised THEN st
    ELSE IF tool_call.name \in PROPOSAL_TOOL_NAMES
    THEN LET validation_error ==
                 ValidationError(st.session, tool_call.name, tool_call.args, t)
         IN  IF validation_error # ""
             THEN [st EXCEPT !.conv = add_message(@, create_tool_message(tool_call.id,
                       [error |-> validation_error,
                        action_required |-> action_required]))]
             ELSE IF InvokeRaises(tool_call) THEN [st EXCEPT !.raised = TRUE]
             ELSE [st EXCEPT !.proposals_to_queue = Append(@,
                       [proposal |-> InvokeProposalTool(tool_call.name, tool_call.args),
                        tool_call_id |-> tool_call.id,
                        tool_name |-> tool_call.name])]
    ELSE IF InvokeRaises(tool_call) THEN [st EXCEPT !.raised = TRUE]
    ELSE LET s2 == IF tool_call.name \in {"get_calendar_events", "get_today_events"}
                   THEN update_from_calendar_read(st.session, result, t)
                   ELSE IF tool_call.name = "get_tasks"
                        THEN update_from_tasks_read(st.session, result, t)
                        ELSE st.session
         IN  [st EXCEPT !.session = s2,
                        !.conv = add_message(@, create_tool_message(tool_call.id,
                                     [items |-> result]))]

\* the tool calls of a response taken from the last to the first
RECURSIVE ProcessToolCalls_last_first(_, _, _, _, _)
ProcessToolCalls_last_first(tool_calls, results, st, t, action_required) ==
    IF tool_calls = << >> THEN st
    ELSE LET n == Len(tool_calls)
         IN  ProcessToolCalls_last_first(SubSeq(tool_calls, 1, n - 1),
                 SubSeq(results, 1, n - 1),
                 ProcessToolCall(tool_calls[n], results[n], st, t, action_required),
                 t, action_required)

RECURSIVE ProcessToolCalls(_, _, _, _, _)
ProcessToolCalls(tool_calls, results, st, t, action_required) ==
    IF tool_calls = << >> THEN st
    ELSE ProcessToolCalls(Tail(tool_calls), Tail(results),
             ProcessToolCall(Head(tool_calls), Head(results), st, t, action_required),
             t, action_required)

\* ------------------------------------------------------------ presentation

NoDisplay == [kind |-> "none"]
TextReply(text) == [kind |-> "text", text |-> text]

\* send_confirmation(proposal, prefix): prefix_total = k stands for "[1/k] ",
\* 0 for no prefix
Confirmation(entry, prefix_total) ==
    [kind |-> "confirmation", prefix_total |-> prefix_total,
     proposal |-> entry.proposal, tool_call_id |-> entry.tool_call_id]

\* the count prefix whenever the queue is not empty ("[1/1] " for one entry)
show_next_proposal_counted(queue) ==
    IF queue = << >> THEN TextReply("All done!")
    ELSE Confirmation(queue[1], Len(queue))

show_next_proposal(queue) ==
    IF queue = << >> THEN TextReply("All done!")
    ELSE LET total == Len(queue)
         IN  Confirmation(queue[1], IF total > 1 THEN total ELSE 0)

\* --------------------------------------------------------------- database

\* a row of users with the defaults of the table
DefaultUser == [briefing_enabled |-> 0, reminders_enabled |-> 1, nudges_enabled |-> 1]

\* the row of user_id: a set of no row or one row
get_user(table, user_id) == {table[v] : v \in DOMAIN table \cap {user_id}}

\* INSERT OR IGNORE
create_user(table, user_id) ==
    IF user_id \in DOMAIN table THEN table
    ELSE [v \in DOMAIN table \cup {user_id} |->
             IF v = user_id THEN DefaultUser ELSE table[v]]

\* UPDATE users SET field = value WHERE user_id = ?
update_user(table, user_id, field, value) ==
    IF user_id \in DOMAIN table
    THEN [table EXCEPT ![user_id] = [@ EXCEPT ![field] = value]]
    ELSE table

\* "reference_id = ?" for the briefing as well: NULL = NULL is not true in SQL
was_reminder_sent_eq_null(rows, user_id, reminder_type, reference_id, reference_date) ==
    \E r \in rows :
        /\ r.user_id = user_id
        /\ r.reminder_type = reminder_type
        /\ r.reference_id # None
        /\ r.reference_id = reference_id
        /\ r.reference_date = reference_date

\* reference_id None is SQL NULL, looked up with IS NULL
was_reminder_sent(rows, user_id, reminder_type, reference_id, reference_date) ==
    \E r \in rows :
        /\ r.user_id = user_id
        /\ r.reminder_type = reminder_type
        /\ r.reference_id = reference_id
        /\ r.reference_date = reference_date

\* INSERT OR IGNORE: the UNIQUE constraint drops a second row of the same
\* key, except that rows with a NULL reference_id never conflict
mark_reminder_sent(rows, user_id, reminder_type, reference_id, reference_date, sent_at) ==
    IF reference_id # None
       /\ was_reminder_sent(rows, user_id, reminder_type, reference_id, reference_date)
    THEN rows
    ELSE rows \cup {[user_id |-> user_id, reminder_type |-> reminder_type,
                     reference_id |-> reference_id,
                     reference_date |-> reference_date, sent_at |-> sent_at]}

get_all_users_with_briefings(table) ==
    {v \in DOMAIN table : table[v].briefing_enabled = 1}

get_all_users_with_reminders_enabled(table) ==
    {v \in DOMAIN table : table[v].reminders_enabled = 1}

get_all_users_with_nudges_enabled(table) ==
    {v \in DOMAIN table : table[v].nudges_enabled = 1}

\* DELETE FROM sent_reminders WHERE sent_at < now - days_to_keep days
cleanup_old_reminders(rows, days_to_keep, t) ==
    {r \in rows : ~(r.sent_at < t - days_to_keep)}

\* -------------------------------------------------------------- scheduler

\* the name f"briefing_{user_id}"
BriefingJobName(user_id) == <<"briefing", user_id>>

\* get_jobs_by_name(job_name) and schedule_removal() of each job found
RemoveJobs(jobs, job_name) ==
    LET Other(j) == j.name # job_name
    IN  SelectSeq(jobs, Other)

\* the briefing time of a row is the default '08:00', which nothing
\* changes, so run_daily is always reached
schedule_user_briefing(jobs, user_id) ==
    Append(RemoveJobs(jobs, BriefingJobName(user_id)),
           [name |-> BriefingJobName(user_id), callback |-> "daily_briefing_job",
            chat_id |-> user_id])

\* the job of a disabled briefing stays scheduled
remove_user_briefing_kept(jobs, user_id) == jobs

remove_user_briefing(jobs, user_id) == RemoveJobs(jobs, BriefingJobName(user_id))

RECURSIVE ScheduleEach(_, _)
ScheduleEach(jobs, ids) ==
    IF ids = {} THEN jobs
    ELSE LET v == CHOOSE w \in ids : \A x \in ids : w <= x
         IN  ScheduleEach(schedule_user_briefing(jobs, v), ids \ {v})

schedule_all_user_briefings(jobs, table) ==
    ScheduleEach(jobs, get_all_users_with_briefings(table))

\* the job queue when the bot starts on the users table
setup_scheduled_jobs(table) ==
    Append(schedule_all_user_briefings(
               << [name |-> <<"event_reminder_check", 0>>,
                   callback |-> "event_reminder_check_job", chat_id |-> 0],
                  [name |-> <<"overdue_nudge_check", 0>>,
                   callback |-> "overdue_nudge_job", chat_id |-> 0] >>, table),
           [name |-> <<"cleanup_old_reminders", 0>>, callback |-> "cleanup_job",
            chat_id |-> 0])

\* ------------------------------------------------------------------ state

Idle == [kind |-> "idle", user |-> 0, iteration |-> 0]

\* The database file outlives the process.  The specifications of the
\* conversation start on a database that knows the users ids, nothing sent
\* yet; SpecProactive starts on every users table.
KnownUsers(ids) ==
    /\ users = [v \in ids |-> DefaultUser]
    /\ sent_reminders = {}
    /\ job_queue = setup_scheduled_jobs(users)
    /\ delivered = EmptyBag
    /\ today = 0

Init ==
    /\ now = 0
    /\ conversations = [u \in Users |-> << >>]
    /\ pending_proposals = [u \in Users |-> << >>]
    /\ sessions = [u \in Users |-> SessionState]
    /\ pc = Idle
    /\ display = [u \in Users |-> NoDisplay]
    /\ buttons = [u \in Users |-> {}]
    /\ mutation_calls = << >>
    /\ llm_calls = 0
    /\ last_call_id = 0
    /\ texts_sent = 0
    /\ unhandled = {}
    /\ KnownUsers(Users)

\* ----------------------------------------------------------------- actions

\* the clock advances
Tick ==
    /\ now < MaxTime
    /\ now' = now + 1
    /\ UNCHANGED <<conversations, pending_proposals, sessions, pc, display, buttons,
                   mutation_calls, llm_calls, last_call_id, texts_sent, unhandled, storage>>

\* pending_proposals.clear() in place of pending_proposals.pop(user_id, None)
start_command_all(u) ==
    /\ pc = Idle
    /\ conversations' = [conversations EXCEPT ![u] = << >>]
    /\ pending_proposals' = [v \in DOMAIN pending_proposals |-> << >>]
    /\ sessions' = [sessions EXCEPT ![u] = SessionClear(@)]
    /\ display' = [display EXCEPT ![u] = TextReply("Hi!")]
    /\ llm_calls' = 0
    /\ UNCHANGED <<now, pc, buttons, mutation_calls, last_call_id, texts_sent,
                   unhandled, sent_reminders,
                   job_queue, delivered, today>>
    /\ users' = IF get_user(users, u) = {} THEN create_user(users, u) ELSE users

\* /start
start_command(u) ==
    /\ pc = Idle
    /\ conversations' = [conversations EXCEPT ![u] = << >>]
    /\ pending_proposals' = [pending_proposals EXCEPT ![u] = << >>]
    /\ sessions' = [sessions EXCEPT ![u] = SessionClear(@)]
    /\ display' = [display EXCEPT ![u] = TextReply("Hi!")]
    /\ llm_calls' = 0
    /\ UNCHANGED <<now, pc, buttons, mutation_calls, last_call_id, texts_sent,
                   unhandled, sent_reminders,
                   job_queue, delivered, today>>
    /\ users' = IF get_user(users, u) = {} THEN create_user(users, u) ELSE users

\* a user text: the message is appended and the agent loop starts
handle_message(u) ==
    /\ pc = Idle
    /\ texts_sent < MaxTexts
    /\ texts_sent' = texts_sent + 1
    /\ conversations' = [conversations EXCEPT ![u] = add_message(@, HumanMessage)]
    /\ pc' = [kind |-> "loop", user |-> u, iteration |-> 0]
    /\ llm_calls' = 0
    /\ UNCHANGED <<now, pending_proposals, sessions, display, buttons,
                   mutation_calls, last_call_id, unhandled, storage>>

\* a failed LLM call is made again while iterations are left
LoopStep_retries(u, content, reqs) ==
    LET tool_calls == ToolCalls(reqs, last_call_id)
        ai_msg == AIMessage(content, tool_calls)
        results == [i \in 1..Len(reqs) |-> reqs[i].result]
        st == ProcessToolCalls(tool_calls, results,
                  [conv |-> add_message(conversations[u], ai_msg),
                   session |-> sessions[u],
                   proposals_to_queue |-> << >>, raised |-> FALSE],
                  now, "Fetch fresh data before proposing changes")
    IN  /\ llm_calls' = llm_calls + 1
        /\ last_call_id' = last_call_id + Len(reqs)
        /\ IF tool_calls = << >>
           THEN /\ conversations' = [conversations EXCEPT ![u] = add_message(@, ai_msg)]
                /\ display' = [display EXCEPT ![u] =
                       TextReply(IF content # "" THEN content
                                 ELSE "I'm not sure how to help with that.")]
                /\ pc' = IF content = "Sorry, I had trouble processing that. Can you try again?"
                            /\ pc.iteration + 1 < max_iterations
                         THEN [pc EXCEPT !.iteration = @ + 1]
                         ELSE Idle
                /\ UNCHANGED <<sessions, pending_proposals, buttons>>
           ELSE /\ conversations' = [conversations EXCEPT ![u] = st.conv]
                /\ sessions' = [sessions EXCEPT ![u] = st.session]
                /\ IF st.raised
                   THEN /\ pc' = Idle
                        /\ UNCHANGED <<pending_proposals, buttons, display>>
                   ELSE
                   IF st.proposals_to_queue # << >>
                   THEN /\ pending_proposals' =
                              [pending_proposals EXCEPT ![u] = st.proposals_to_queue]
                        /\ display' = [display EXCEPT ![u] =
                              show_next_proposal(st.proposals_to_queue)]
                        /\ buttons' = [buttons EXCEPT ![u] =
                              @ \cup {st.proposals_to_queue[1].tool_call_id}]
                        /\ pc' = Idle
                   ELSE /\ UNCHANGED <<pending_proposals, buttons>>
                        /\ IF pc.iteration + 1 < max_iterations
                           THEN /\ pc' = [pc EXCEPT !.iteration = @ + 1]
                                /\ UNCHANGED display
                           ELSE /\ pc' = Idle
                                /\ display' = [display EXCEPT ![u] =
                                      TextReply("I'm having trouble processing that. Can you try again?")]
        /\ unhandled' = IF st.raised THEN unhandled \cup {u} ELSE unhandled
        /\ UNCHANGED storage
        /\ UNCHANGED <<now, mutation_calls, texts_sent>>

\* One iteration of the loop of process_llm_response: the LLM answers with
\* content and the tool calls reqs.
LoopStep(u, content, reqs) ==
    LET tool_calls == ToolCalls(reqs, last_call_id)
        ai_msg == AIMessage(content, tool_calls)
        results == [i \in 1..Len(reqs) |-> reqs[i].result]
        st == ProcessToolCalls(tool_calls, results,
                  [conv |-> add_message(conversations[u], ai_msg),
                   session |-> sessions[u],
                   proposals_to_queue |-> << >>, raised |-> FALSE],
                  now, "Fetch fresh data before proposing changes")
    IN  /\ llm_calls' = llm_calls + 1
        /\ last_call_id' = last_call_id + Len(reqs)
        /\ IF tool_calls = << >>
           THEN /\ conversations' = [conversations EXCEPT ![u] = add_message(@, ai_msg)]
                /\ display' = [display EXCEPT ![u] =
                       TextReply(IF content # "" THEN content
                                 ELSE "I'm not sure how to help with that.")]
                /\ pc' = Idle
                /\ UNCHANGED <<sessions, pending_proposals, buttons>>
           ELSE /\ conversations' = [conversations EXCEPT ![u] = st.conv]
                /\ sessions' = [sessions EXCEPT ![u] = st.session]
                /\ IF st.raised
                   THEN /\ pc' = Idle
                        /\ UNCHANGED <<pending_proposals, buttons, display>>
                   ELSE
                   IF st.proposals_to_queue # << >>
                   THEN /\ pending_proposals' =
                              [pending_proposals EXCEPT ![u] = st.proposals_to_queue]
                        /\ display' = [display EXCEPT ![u] =
                              show_next_proposal(st.proposals_to_queue)]
                        /\ buttons' = [buttons EXCEPT ![u] =
                              @ \cup {st.proposals_to_queue[1].tool_call_id}]
                        /\ pc' = Idle
                   ELSE /\ UNCHANGED <<pending_proposals, buttons>>
                        /\ IF pc.iteration + 1 < max_iterations
                           THEN /\ pc' = [pc EXCEPT !.iteration = @ + 1]
                                /\ UNCHANGED display
                           ELSE /\ pc' = Idle
                                /\ display' = [display EXCEPT ![u] =
                                      TextReply("I'm having trouble processing that. Can you try again?")]
        /\ unhandled' = IF st.raised THEN unhandled \cup {u} ELSE unhandled
        /\ UNCHANGED storage
        /\ UNCHANGED <<now, mutation_calls, texts_sent>>

\* The responses the LLM collaborator may give: text alone (the last one is
\* what llm_handler.chat returns when the call fails), or at most width tool
\* calls drawn from menu while tool-call ids up to budget are left.
LLMResponds(menu, budget, width) ==
    {[content |-> content, reqs |-> << >>] :
        content \in {"", "text", "Sorry, I had trouble processing that. Can you try again?"}}
    \cup {[content |-> content, reqs |-> reqs] :
            content \in {"", "text"},
            reqs \in {q \in SeqsUpTo(menu, width) :
                         q # << >> /\ last_call_id + Len(q) <= budget}}

process_llm_response(u, menu, budget, width) ==
    /\ pc.kind = "loop"
    /\ pc.user = u
    /\ \E r \in LLMResponds(menu, budget, width) : LoopStep(u, r.content, r.reqs)

\* queue.pop() in place of queue.pop(0)
pop0_last(queue) ==
    [item |-> queue[Len(queue)], rest |-> SubSeq(queue, 1, Len(queue) - 1)]

\* queue[0] in place of queue.pop(0): the head is read and left in the queue
pop0_peek(queue) == [item |-> Head(queue), rest |-> queue]

\* queue.pop(0): the item removed and the queue left
pop0(queue) == [item |-> Head(queue), rest |-> Tail(queue)]

\* Confirm button of the confirmation message pressed (handle_callback acts
\* for the pressing user whatever the message): the head is popped and
\* dispatched, its result appended, and edit_message_text takes the buttons
\* off the pressed message; api_ok is the mutation collaborator's outcome.
handle_confirm(u, pressed, api_ok) ==
    LET queue == pending_proposals[u]
        current == pop0(queue).item
        rest == pop0(queue).rest
        result == execute_confirmed_proposal(current.proposal, api_ok)
        made == MutationCallsOf(current.proposal)
    IN  /\ pc = Idle
        /\ pressed \in buttons[u]
        /\ llm_calls' = 0
        /\ IF queue = << >>
           THEN /\ display' = [display EXCEPT ![u] =
                       TextReply("No pending action to confirm.")]
                /\ buttons' = [buttons EXCEPT ![u] = @ \ {pressed}]
                /\ UNCHANGED <<conversations, pending_proposals, pc, mutation_calls>>
           ELSE /\ mutation_calls' = mutation_calls \o
                       [i \in 1..Len(made) |->
                           [user |-> u, tool_call_id |-> current.tool_call_id,
                            call |-> made[i]]]
                /\ conversations' = [conversations EXCEPT ![u] =
                       add_message(@, create_tool_message(current.tool_call_id, result))]
                /\ pending_proposals' = [pending_proposals EXCEPT ![u] = rest]
                /\ IF rest # << >>
                   THEN /\ display' = [display EXCEPT ![u] =
                               Confirmation(rest[1],
                                   IF Len(rest) > 1 THEN Len(rest) ELSE 0)]
                        /\ buttons' = [buttons EXCEPT ![u] =
                               (@ \ {pressed}) \cup {rest[1].tool_call_id}]
                        /\ pc' = Idle
                   ELSE /\ display' = [display EXCEPT ![u] = TextReply("Confirmed")]
                        /\ buttons' = [buttons EXCEPT ![u] = @ \ {pressed}]
                        /\ pc' = [kind |-> "followup", user |-> u, iteration |-> 0]
        /\ UNCHANGED <<now, sessions, last_call_id, texts_sent, unhandled, storage>>

\* The rest of handle_confirm once the queue is empty: the LLM's follow-up,
\* answering with content and the tool calls reqs.
FollowUpStep(u, content, reqs) ==
    LET tool_calls == ToolCalls(reqs, last_call_id)
        ai_msg == AIMessage(content, tool_calls)
        results == [i \in 1..Len(reqs) |-> reqs[i].result]
        conv1 == IF tool_calls # << >> THEN add_message(conversations[u], ai_msg)
                 ELSE conversations[u]
        st == ProcessToolCalls(tool_calls, results,
                  [conv |-> conv1, session |-> sessions[u],
                   proposals_to_queue |-> << >>, raised |-> FALSE],
                  now, "Fetch fresh data first")
    IN  /\ llm_calls' = llm_calls + 1
        /\ last_call_id' = last_call_id + Len(reqs)
        /\ pc' = Idle
        /\ sessions' = [sessions EXCEPT ![u] = st.session]
        /\ IF st.raised
           THEN /\ conversations' = [conversations EXCEPT ![u] = st.conv]
                /\ UNCHANGED <<pending_proposals, buttons, display>>
           ELSE
           IF st.proposals_to_queue # << >>
           THEN /\ pending_proposals' =
                      [pending_proposals EXCEPT ![u] = st.proposals_to_queue]
                /\ conversations' = [conversations EXCEPT ![u] = st.conv]
                /\ display' = [display EXCEPT ![u] =
                      Confirmation(st.proposals_to_queue[1],
                          IF Len(st.proposals_to_queue) > 1
                          THEN Len(st.proposals_to_queue) ELSE 0)]
                /\ buttons' = [buttons EXCEPT ![u] =
                      @ \cup {st.proposals_to_queue[1].tool_call_id}]
           ELSE /\ UNCHANGED <<pending_proposals, buttons>>
                /\ IF content # ""
                   THEN /\ conversations' = [conversations EXCEPT ![u] =
                               add_message(st.conv, ai_msg)]
                        /\ display' = [display EXCEPT ![u] = TextReply(content)]
                   ELSE /\ conversations' = [conversations EXCEPT ![u] = st.conv]
                        /\ UNCHANGED display
        /\ unhandled' = IF st.raised THEN unhandled \cup {u} ELSE unhandled
        /\ UNCHANGED storage
        /\ UNCHANGED <<now, mutation_calls, texts_sent>>

\* the follow-up runs an iteration of the agent loop
confirm_followup_loops(u, menu, budget, width) ==
    /\ pc.kind = "followup"
    /\ pc.user = u
    /\ \E r \in LLMResponds(menu, budget, width) : LoopStep(u, r.content, r.reqs)

confirm_followup(u, menu, budget, width) ==
    /\ pc.kind = "followup"
    /\ pc.user = u
    /\ \E r \in LLMResponds(menu, budget, width) : FollowUpStep(u, r.content, r.reqs)

CancelledResult == [status |-> "cancelled", message |-> "User cancelled the action"]

\* only the active entry is answered
AddCancellations_head(conv, queue) ==
    IF queue = << >> THEN conv
    ELSE add_message(conv, create_tool_message(Head(queue).tool_call_id,
                                               CancelledResult))

RECURSIVE AddCancellations(_, _)
AddCancellations(conv, queue) ==
    IF queue = << >> THEN conv
    ELSE AddCancellations(
             add_message(conv, create_tool_message(Head(queue).tool_call_id,
                                                   CancelledResult)),
             Tail(queue))

\* pending_proposals.get(user_id, []) in place of pending_proposals.pop(user_id, [])
handle_cancel_keeps_queue(u, pressed) ==
    LET queue == pending_proposals[u]
    IN  /\ pc = Idle
        /\ pressed \in buttons[u]
        /\ buttons' = [buttons EXCEPT ![u] = @ \ {pressed}]
        /\ llm_calls' = 0
        /\ conversations' = [conversations EXCEPT ![u] = AddCancellations(@, queue)]
        /\ display' = [display EXCEPT ![u] =
               IF Len(queue) > 1 THEN TextReply("Cancelled pending actions.")
               ELSE TextReply("Cancelled.")]
        /\ UNCHANGED <<now, pending_proposals, sessions, pc, mutation_calls,
                       last_call_id, texts_sent, unhandled, storage>>

\* a cancel that goes on to call the LLM, as a confirm of the last entry does
handle_cancel_resumes(u, pressed) ==
    LET queue == pending_proposals[u]
    IN  /\ pc = Idle
        /\ pressed \in buttons[u]
        /\ buttons' = [buttons EXCEPT ![u] = @ \ {pressed}]
        /\ llm_calls' = 0
        /\ pending_proposals' = [pending_proposals EXCEPT ![u] = << >>]
        /\ conversations' = [conversations EXCEPT ![u] = AddCancellations(@, queue)]
        /\ display' = [display EXCEPT ![u] =
               IF Len(queue) > 1 THEN TextReply("Cancelled pending actions.")
               ELSE TextReply("Cancelled.")]
        /\ pc' = [kind |-> "followup", user |-> u, iteration |-> 0]
        /\ UNCHANGED <<now, sessions, mutation_calls, last_call_id, texts_sent,
                       unhandled, storage>>

\* Cancel button
handle_cancel(u, pressed) ==
    LET queue == pending_proposals[u]
    IN  /\ pc = Idle
        /\ pressed \in buttons[u]
        /\ buttons' = [buttons EXCEPT ![u] = @ \ {pressed}]
        /\ llm_calls' = 0
        /\ pending_proposals' = [pending_proposals EXCEPT ![u] = << >>]
        /\ conversations' = [conversations EXCEPT ![u] = AddCancellations(@, queue)]
        /\ display' = [display EXCEPT ![u] =
               IF Len(queue) > 1 THEN TextReply("Cancelled pending actions.")
               ELSE TextReply("Cancelled.")]
        /\ UNCHANGED <<now, sessions, pc, mutation_calls, last_call_id, texts_sent,
                       unhandled, storage>>

\* the cancellation status in place of change_requested
ChangeRequestedResult_cancelled(proposal) ==
    [status |-> "cancelled",
     message |-> "User cancelled the action",
     original_proposal |-> proposal]

ChangeRequestedResult(proposal) ==
    [status |-> "change_requested",
     message |-> "User wants to modify this proposal. Ask what they'd like to change.",
     original_proposal |-> proposal]

\* without the early return on an empty queue: the proposal of the pressed
\* message is answered
handle_change_unchecked(u, pressed) ==
    LET queue == pending_proposals[u]
    IN  /\ pc = Idle
        /\ pressed \in buttons[u]
        /\ buttons' = [buttons EXCEPT ![u] = @ \ {pressed}]
        /\ llm_calls' = 0
        /\ conversations' = [conversations EXCEPT ![u] =
               add_message(@, create_tool_message(
                   IF queue = << >> THEN pressed ELSE queue[1].tool_call_id,
                   ChangeRequestedResult(IF queue = << >> THEN None
                                         ELSE queue[1].proposal)))]
        /\ pending_proposals' = [pending_proposals EXCEPT ![u] = << >>]
        /\ display' = [display EXCEPT ![u] = [kind |-> "change_prompt"]]
        /\ UNCHANGED <<now, sessions, pc, mutation_calls, last_call_id, texts_sent,
                       unhandled, storage>>

\* Change button
handle_change(u, pressed) ==
    LET queue == pending_proposals[u]
        current == queue[1]
    IN  /\ pc = Idle
        /\ pressed \in buttons[u]
        /\ buttons' = [buttons EXCEPT ![u] = @ \ {pressed}]
        /\ llm_calls' = 0
        /\ IF queue = << >>
           THEN /\ display' = [display EXCEPT ![u] =
                       TextReply("No pending action to change.")]
                /\ UNCHANGED <<conversations, pending_proposals>>
           ELSE /\ conversations' = [conversations EXCEPT ![u] =
                       add_message(@, create_tool_message(current.tool_call_id,
                           ChangeRequestedResult(current.proposal)))]
                /\ pending_proposals' = [pending_proposals EXCEPT ![u] = << >>]
                /\ display' = [display EXCEPT ![u] =
                       [kind |-> "change_prompt", proposal |-> current.proposal]]
        /\ UNCHANGED <<now, sessions, pc, mutation_calls, last_call_id, texts_sent,
                       unhandled, storage>>

Next ==
    \/ Tick
    \/ \E u \in Users : start_command(u)
    \/ \E u \in Users : handle_message(u)
    \/ \E u \in Users : process_llm_response(u, MainMenu, MaxToolCalls, MaxToolCalls)
    \/ \E u \in Users, pressed \in 1..MaxToolCalls, api_ok \in BOOLEAN :
           handle_confirm(u, pressed, api_ok)
    \/ \E u \in Users : confirm_followup(u, MainMenu, MaxToolCalls, MaxToolCalls)
    \/ \E u \in Users, pressed \in 1..MaxToolCalls : handle_cancel(u, pressed)
    \/ \E u \in Users, pressed \in 1..MaxToolCalls : handle_change(u, pressed)

Spec == Init /\ [][Next]_vars

\* The agent loop alone, on a turn of up to max_iterations LLM calls: the user
\* sends texts and presses no button.
LoopMenu ==
    {r \in AllRequests :
        \/ (r.name = "get_tasks" /\ r.result = {})
        \/ r.name = "propose_create_task"
        \/ (r.name = "propose_delete_task" /\ r.args.task_id # "")}

NextLoop ==
    \/ Tick
    \/ \E u \in Users : handle_message(u)
    \/ \E u \in Users :
           process_llm_response(u, LoopMenu, LoopToolCalls, LoopCallsPerResponse)

SpecLoop == Init /\ [][NextLoop]_vars

\* llm_handler.chat returns, at the latest when the 120 s timeout of the
\* LLM client fires (llm_handler.py 24-29, 130-133)
SpecLoopFair ==
    SpecLoop /\ WF_vars(\E u \in Users :
                 process_llm_response(u, LoopMenu, LoopToolCalls, LoopCallsPerResponse))

\* ------------------------------------------------- the dispatcher's inputs

\* Proposal tool calls over every proposal variant, the fields shown to the
\* user but not sent to google_api ranging over two values each.
DispatchRequests ==
    CreateRequests
    \cup {[name |-> "propose_edit_task", result |-> {},
           args |-> [task_id |-> "t1", current_title |-> c, tasklist_id |-> "L",
                     title |-> "new", notes |-> None, due_date |-> None]] :
            c \in {"cur", "other"}}
    \cup {[name |-> n, result |-> {},
           args |-> [task_id |-> "t1", task_title |-> c, tasklist_id |-> "L"]] :
            n \in {"propose_delete_task", "propose_complete_task"},
            c \in {"cur", "other"}}
    \cup {[name |-> "propose_edit_event", result |-> {},
           args |-> [event_id |-> "e1", current_title |-> c, current_datetime |-> w,
                     new_title |-> "new", new_date |-> None, new_start_time |-> None,
                     new_end_time |-> None, new_description |-> None,
                     new_location |-> None]] :
            c \in {"cur", "other"}, w \in {"when", "then"}}
    \cup {[name |-> "propose_delete_event", result |-> {},
           args |-> [event_id |-> "e1", event_title |-> c, event_datetime |-> w]] :
            c \in {"cur", "other"}, w \in {"when", "then"}}

\* The dicts execute_confirmed_proposal is given: what the proposal tools
\* return for DispatchRequests, a dict of an unknown proposal type and a dict
\* without a required key (each with the tool call it is queued under).
DispatchInputs ==
    {[req |-> r, proposal |-> InvokeProposalTool(r.name, r.args)] :
        r \in DispatchRequests}
    \cup {[req |-> r, proposal |-> p] :
            r \in {q \in CreateRequests : q.name = "propose_create_task"},
            p \in {[proposal_type |-> "bogus"], [proposal_type |-> "create_task"]}}

\* One response has read the tasks and the calendar and queued two entries.
InitDispatch ==
    \E in1, in2 \in DispatchInputs :
      LET reads == << [name |-> "get_tasks", args |-> NoArgs, result |-> {"t1"}],
                      [name |-> "get_calendar_events", args |-> [days_ahead |-> 7],
                       result |-> {"e1"}] >>
          tool_calls == ToolCalls(reads \o <<in1.req, in2.req>>, 0)
          st == ProcessToolCalls(SubSeq(tool_calls, 1, 2), <<{"t1"}, {"e1"}>>,
                    [conv |-> <<HumanMessage, AIMessage("", tool_calls)>>,
                     session |-> SessionState, proposals_to_queue |-> << >>,
                     raised |-> FALSE],
                    0, "Fetch fresh data before proposing changes")
          queue == << [proposal |-> in1.proposal, tool_call_id |-> tool_calls[3].id,
                       tool_name |-> in1.req.name],
                      [proposal |-> in2.proposal, tool_call_id |-> tool_calls[4].id,
                       tool_name |-> in2.req.name] >>
      IN  /\ now = 0
          /\ conversations = [u \in Users |-> st.conv]
          /\ pending_proposals = [u \in Users |-> queue]
          /\ sessions = [u \in Users |-> st.session]
          /\ pc = Idle
          /\ display = [u \in Users |-> show_next_proposal(queue)]
          /\ buttons = [u \in Users |-> {queue[1].tool_call_id}]
          /\ mutation_calls = << >>
          /\ llm_calls = 1
          /\ last_call_id = Len(tool_calls)
          /\ texts_sent = 1
          /\ unhandled = {}
          /\ KnownUsers(Users)

NextDispatch ==
    \/ \E u \in Users : \E pressed \in buttons[u], api_ok \in BOOLEAN :
           handle_confirm(u, pressed, api_ok)
    \/ \E u \in Users : confirm_followup(u, {}, 0, 0)

SpecDispatch == InitDispatch /\ [][NextDispatch]_vars

\* ------------------------------------------- responses the tools reject

FaultToolCalls == 3

\* What the LLM may also request: a tool that does not exist, and a proposal
\* tool without its required arguments.
FaultMenu ==
    {[name |-> "get_weather", args |-> NoArgs, result |-> {}],
     [name |-> "propose_create_task", args |-> NoArgs, result |-> {}]}
    \cup {r \in AllRequests :
            \/ (r.name = "get_tasks" /\ r.result # {})
            \/ r.name = "propose_create_task"}

NextFaults ==
    \/ \E u \in Users : handle_message(u)
    \/ \E u \in Users : process_llm_response(u, FaultMenu, FaultToolCalls, 2)
    \/ \E u \in Users : \E pressed \in buttons[u], api_ok \in BOOLEAN :
           handle_confirm(u, pressed, api_ok)
    \/ \E u \in Users : confirm_followup(u, FaultMenu, FaultToolCalls, 2)

SpecFaults == Init /\ [][NextFaults]_vars

\* ------------------------------------------------ the validator's inputs

ValidateToolCalls == 2
ValidateTaskIds == {"t1", "t2"}
ValidateEventIds == {"e1", "e2"}

\* the sessions reads can leave at time t: a kind never fetched has no
\* allowed id, a fetched one any set of ids and a fetch time up to t
SessionsAt(t) ==
    {s \in [allowed_event_ids : SUBSET ValidateEventIds,
            allowed_task_ids : SUBSET ValidateTaskIds,
            calendar_fetched_at : {NoneTime} \cup 0..t,
            tasks_fetched_at : {NoneTime} \cup 0..t] :
        /\ s.calendar_fetched_at = NoneTime => s.allowed_event_ids = {}
        /\ s.tasks_fetched_at = NoneTime => s.allowed_task_ids = {}}

\* proposals on each id of each kind
ValidateMenu ==
    {[name |-> "propose_delete_task", result |-> {},
      args |-> [task_id |-> i, task_title |-> "cur", tasklist_id |-> "L"]] :
        i \in ValidateTaskIds}
    \cup {[name |-> "propose_delete_event", result |-> {},
           args |-> [event_id |-> i, event_title |-> "cur", event_datetime |-> "when"]] :
            i \in ValidateEventIds}

\* a user text has just arrived, the session being any of SessionsAt(now)
InitValidate ==
    /\ now \in 0..MaxTime
    /\ sessions \in [Users -> SessionsAt(now)]
    /\ conversations = [u \in Users |-> <<HumanMessage>>]
    /\ pending_proposals = [u \in Users |-> << >>]
    /\ pc \in {[kind |-> "loop", user |-> u, iteration |-> 0] : u \in Users}
    /\ display = [u \in Users |-> NoDisplay]
    /\ buttons = [u \in Users |-> {}]
    /\ mutation_calls = << >>
    /\ llm_calls = 0
    /\ last_call_id = 0
    /\ texts_sent = 1
    /\ unhandled = {}
    /\ KnownUsers(Users)

NextValidate ==
    \/ Tick
    \/ \E u \in Users : process_llm_response(u, ValidateMenu, ValidateToolCalls, 1)

SpecValidate == InitValidate /\ [][NextValidate]_vars

\* --------------------------------------------------------- repeated reads

ReadToolCalls == 3

\* every read tool with every result, and a delete proposal of each kind
ReadMenu ==
    ReadRequests
    \cup {r \in AllRequests :
            \/ (r.name = "propose_delete_task" /\ r.args.task_id # "")
            \/ (r.name = "propose_delete_event" /\ r.args.event_id # "")}

NextReads ==
    \/ Tick
    \/ \E u \in Users : handle_message(u)
    \/ \E u \in Users : process_llm_response(u, ReadMenu, ReadToolCalls, 1)

SpecReads == Init /\ [][NextReads]_vars

\* ------------------------------------------------------ long conversations

TrimTextTurns == 8
TrimToolCalls == 3

RECURSIVE AddMessages(_, _)
AddMessages(conv, messages) ==
    IF messages = << >> THEN conv
    ELSE AddMessages(add_message(conv, Head(messages)), Tail(messages))

\* a turn answered with text, n times over
RECURSIVE TextTurns(_)
TextTurns(n) ==
    IF n = 0 THEN << >>
    ELSE <<HumanMessage, AIMessage("text", << >>)>> \o TextTurns(n - 1)

\* The user has chatted for a while: a first turn in which the tasks were
\* read (tool call 1), then TrimTextTurns - 1 or TrimTextTurns turns
\* answered with text.
InitTrim ==
    \E n \in {TrimTextTurns - 1, TrimTextTurns} :
      LET read == [name |-> "get_tasks", args |-> NoArgs, result |-> {"t1"}]
          tool_calls == ToolCalls(<<read>>, 0)
          st == ProcessToolCalls(tool_calls, <<read.result>>,
                    [conv |-> <<HumanMessage, AIMessage("", tool_calls)>>,
                     session |-> SessionState, proposals_to_queue |-> << >>,
                     raised |-> FALSE],
                    0, "Fetch fresh data before proposing changes")
      IN  /\ now = 0
          /\ conversations = [u \in Users |->
                 AddMessages(st.conv, <<AIMessage("text", << >>)>> \o TextTurns(n))]
          /\ pending_proposals = [u \in Users |-> << >>]
          /\ sessions = [u \in Users |-> st.session]
          /\ pc = Idle
          /\ display = [u \in Users |-> TextReply("text")]
          /\ buttons = [u \in Users |-> {}]
          /\ mutation_calls = << >>
          /\ llm_calls = 1
          /\ last_call_id = 1
          /\ texts_sent = 0
          /\ unhandled = {}
          /\ KnownUsers(Users)

TrimMenu ==
    {r \in AllRequests :
        \/ (r.name = "get_tasks" /\ r.result # {})
        \/ r.name = "propose_create_task"}

NextTrim ==
    \/ Tick
    \/ \E u \in Users : handle_message(u)
    \/ \E u \in Users : process_llm_response(u, TrimMenu, TrimToolCalls, 2)
    \/ \E u \in Users : \E pressed \in buttons[u], api_ok \in BOOLEAN :
           handle_confirm(u, pressed, api_ok)
    \/ \E u \in Users : confirm_followup(u, TrimMenu, TrimToolCalls, 2)
    \/ \E u \in Users : \E pressed \in buttons[u] : handle_cancel(u, pressed)

SpecTrim == InitTrim /\ [][NextTrim]_vars

\* ---------------------------------------------------------------- two users

UsersToolCalls == 4
TwoUsers == {1, 2}

\* the dicts of bot.py and session.py hold an entry per user id
InitUsers ==
    /\ now = 0
    /\ conversations = [u \in TwoUsers |-> << >>]
    /\ pending_proposals = [u \in TwoUsers |-> << >>]
    /\ sessions = [u \in TwoUsers |-> SessionState]
    /\ pc = Idle
    /\ display = [u \in TwoUsers |-> NoDisplay]
    /\ buttons = [u \in TwoUsers |-> {}]
    /\ mutation_calls = << >>
    /\ llm_calls = 0
    /\ last_call_id = 0
    /\ texts_sent = 0
    /\ unhandled = {}
    /\ KnownUsers(TwoUsers)

UsersMenu ==
    {r \in AllRequests :
        \/ (r.name = "get_tasks" /\ r.result # {})
        \/ (r.name = "propose_delete_task" /\ r.args.task_id # "")}

\* a handler run for user u (user_id = update.effective_user.id)
OperationFor(u) ==
    \/ start_command(u)
    \/ handle_message(u)
    \/ process_llm_response(u, UsersMenu, UsersToolCalls, 1)
    \/ \E pressed \in buttons[u], api_ok \in BOOLEAN : handle_confirm(u, pressed, api_ok)
    \/ confirm_followup(u, UsersMenu, UsersToolCalls, 1)
    \/ \E pressed \in buttons[u] : handle_cancel(u, pressed)
    \/ \E pressed \in buttons[u] : handle_change(u, pressed)

NextUsers == \E u \in TwoUsers : OperationFor(u)

SpecUsers == InitUsers /\ [][NextUsers]_vars

\* ------------------------------------------------------ the confirm follow-up

FollowToolCalls == 6

\* One response has read the tasks and the calendar and queued one or two
\* create_task proposals.
InitFollowUp ==
    \E n \in 1..2 :
      LET reads == << [name |-> "get_tasks", args |-> NoArgs, result |-> {"t1"}],
                      [name |-> "get_calendar_events", args |-> [days_ahead |-> 7],
                       result |-> {"e1"}] >>
          create == CHOOSE r \in CreateRequests : r.name = "propose_create_task"
          tool_calls == ToolCalls(reads \o [i \in 1..n |-> create], 0)
          st == ProcessToolCalls(tool_calls, <<{"t1"}, {"e1"}>> \o [i \in 1..n |-> {}],
                    [conv |-> <<HumanMessage, AIMessage("", tool_calls)>>,
                     session |-> SessionState, proposals_to_queue |-> << >>,
                     raised |-> FALSE],
                    0, "Fetch fresh data before proposing changes")
      IN  /\ now = 0
          /\ conversations = [u \in Users |-> st.conv]
          /\ pending_proposals = [u \in Users |-> st.proposals_to_queue]
          /\ sessions = [u \in Users |-> st.session]
          /\ pc = Idle
          /\ display = [u \in Users |-> show_next_proposal(st.proposals_to_queue)]
          /\ buttons = [u \in Users |-> {st.proposals_to_queue[1].tool_call_id}]
          /\ mutation_calls = << >>
          /\ llm_calls = 1
          /\ last_call_id = Len(tool_calls)
          /\ texts_sent = 1
          /\ unhandled = {}
          /\ KnownUsers(Users)

FollowMenu ==
    {r \in AllRequests :
        r.name \in {"get_tasks", "propose_create_task", "propose_delete_task",
                    "propose_delete_event"}}

NextFollowUp ==
    \/ Tick
    \/ \E u \in Users : \E pressed \in buttons[u], api_ok \in BOOLEAN :
           handle_confirm(u, pressed, api_ok)
    \/ \E u \in Users : confirm_followup(u, FollowMenu, FollowToolCalls, 2)

SpecFollowUp == InitFollowUp /\ [][NextFollowUp]_vars

\* -------------------------------------------------------------------
\* Create proposals in every session state: the turn starts from any
\* session reads can leave, the LLM asks for creates and for deletes, and
\* /start and a second text may follow
CreateToolCalls == 2

CreateMenu ==
    CreateRequests
    \cup {[name |-> "propose_delete_task", result |-> {},
           args |-> [task_id |-> "t1", task_title |-> "cur", tasklist_id |-> "L"]],
          [name |-> "propose_delete_event", result |-> {},
           args |-> [event_id |-> "e1", event_title |-> "cur",
                     event_datetime |-> "when"]]}

NextCreate ==
    \/ Tick
    \/ \E u \in Users : start_command(u)
    \/ \E u \in Users : handle_message(u)
    \/ \E u \in Users : process_llm_response(u, CreateMenu, CreateToolCalls, 2)

SpecCreate == InitValidate /\ [][NextCreate]_vars

\* -------------------------------------------------------------------
\* Settings and proactive notifications: the settings handlers, the jobs
\* of the job queue firing in any order and any number of times, one at a
\* time, and the date advancing
MaxDate == 8
MaxSends == 3
days_to_keep == 7

\* what /settings shows
SettingsDisplay(user) ==
    [kind |-> "settings", briefing_enabled |-> user.briefing_enabled,
     reminders_enabled |-> user.reminders_enabled,
     nudges_enabled |-> user.nudges_enabled]

\* /settings
settings_command(u) ==
    /\ pc = Idle
    /\ users' = IF get_user(users, u) = {} THEN create_user(users, u) ELSE users
    /\ display' = [display EXCEPT ![u] = SettingsDisplay(users'[u])]
    /\ UNCHANGED <<now, conversations, pending_proposals, sessions, pc, buttons,
                   mutation_calls, llm_calls, last_call_id, texts_sent, unhandled,
                   sent_reminders, job_queue, delivered, today>>

\* a button of a settings message (one of an earlier run may still be on
\* screen, so the handler does not need /settings before it)
handle_settings_toggle(u, data) ==
    /\ pc = Idle
    /\ IF get_user(users, u) = {}
       THEN /\ display' = [display EXCEPT ![u] =
                   TextReply("Error: User not found. Use /start first.")]
            /\ UNCHANGED <<users, job_queue>>
       ELSE LET user == users[u]
            IN  /\ CASE data = "settings_toggle_briefing" ->
                         LET new_value == IF user.briefing_enabled # 0 THEN 0 ELSE 1
                         IN  /\ users' = update_user(users, u, "briefing_enabled", new_value)
                             /\ job_queue' =
                                   IF new_value # 0
                                   THEN schedule_user_briefing(job_queue, u)
                                   ELSE remove_user_briefing(job_queue, u)
                      [] data = "settings_toggle_reminders" ->
                         /\ users' = update_user(users, u, "reminders_enabled",
                                          IF user.reminders_enabled # 0 THEN 0 ELSE 1)
                         /\ UNCHANGED job_queue
                      [] data = "settings_toggle_nudges" ->
                         /\ users' = update_user(users, u, "nudges_enabled",
                                          IF user.nudges_enabled # 0 THEN 0 ELSE 1)
                         /\ UNCHANGED job_queue
                      [] OTHER -> UNCHANGED <<users, job_queue>>
                /\ display' = [display EXCEPT ![u] = SettingsDisplay(users'[u])]
    /\ UNCHANGED <<now, conversations, pending_proposals, sessions, pc, buttons,
                   mutation_calls, llm_calls, last_call_id, texts_sent, unhandled,
                   sent_reminders, delivered, today>>

\* midnight in DEFAULT_TIMEZONE
NextDay ==
    /\ today < MaxDate
    /\ today' = today + 1
    /\ UNCHANGED <<now, conversations, pending_proposals, sessions, pc, display,
                   buttons, mutation_calls, llm_calls, last_call_id, texts_sent,
                   unhandled, users, sent_reminders, job_queue, delivered>>

\* a message context.bot.send_message delivered
Notice(chat_id, kind, reference_id, date) ==
    [chat_id |-> chat_id, kind |-> kind, reference_id |-> reference_id, date |-> date]

Scheduled(callback, chat_id) ==
    \E i \in 1..Len(job_queue) :
        job_queue[i].callback = callback /\ job_queue[i].chat_id = chat_id

\* the rows after one send and mark per element of keys (pairs of
\* reference_id and user_id), in any order: the keys differ
RECURSIVE MarkEach(_, _, _, _)
MarkEach(rows, reminder_type, keys, date) ==
    IF keys = {} THEN rows
    ELSE LET k == CHOOSE x \in keys : TRUE
         IN  MarkEach(mark_reminder_sent(rows, k[2], reminder_type, k[1], date, date),
                      reminder_type, keys \ {k}, date)

\* what is unchanged by a job
JobFrame ==
    UNCHANGED <<now, conversations, pending_proposals, sessions, pc, display,
                buttons, mutation_calls, llm_calls, last_call_id, texts_sent,
                unhandled, users, job_queue, today>>

\* the job briefing_<u>; send_ok is the outcome of send_message, whose
\* exception the job catches
daily_briefing_job(u, send_ok) ==
    /\ Scheduled("daily_briefing_job", u)
    /\ IF was_reminder_sent(sent_reminders, u, "daily_briefing", None, today)
       THEN UNCHANGED <<delivered, sent_reminders>>
       ELSE IF send_ok
            THEN /\ BagCardinality(delivered) < MaxSends
                 /\ delivered' = delivered (+)
                        SetToBag({Notice(u, "daily_briefing", None, today)})
                 /\ sent_reminders' = mark_reminder_sent(sent_reminders, u,
                        "daily_briefing", None, today, today)
            ELSE UNCHANGED <<delivered, sent_reminders>>
    /\ JobFrame

\* the job event_reminder_check; in_window are the events get_events
\* returns that start in the reminder window, failed the pairs of event and
\* user whose send_message raises
event_reminder_check_job(in_window, failed) ==
    LET enabled == get_all_users_with_reminders_enabled(users)
        keys == {k \in (in_window \X enabled) \ failed :
                    ~was_reminder_sent(sent_reminders, k[2], "event_reminder",
                                       k[1], today)}
    IN  /\ Scheduled("event_reminder_check_job", 0)
        /\ BagCardinality(delivered) + Cardinality(keys) <= MaxSends
        /\ delivered' = delivered (+)
               SetToBag({Notice(k[2], "event_reminder", k[1], today) : k \in keys})
        /\ sent_reminders' = MarkEach(sent_reminders, "event_reminder", keys, today)
        /\ JobFrame

\* the job overdue_nudge_check; overdue are the users for whom
\* get_overdue_tasks returns a task, failed those whose send_message raises
overdue_nudge_job(overdue, failed) ==
    LET enabled == get_all_users_with_nudges_enabled(users)
        keys == {k \in {None} \X ((enabled \cap overdue) \ failed) :
                    ~was_reminder_sent(sent_reminders, k[2], "overdue_nudge",
                                       None, today)}
    IN  /\ Scheduled("overdue_nudge_job", 0)
        /\ BagCardinality(delivered) + Cardinality(keys) <= MaxSends
        /\ delivered' = delivered (+)
               SetToBag({Notice(k[2], "overdue_nudge", None, today) : k \in keys})
        /\ sent_reminders' = MarkEach(sent_reminders, "overdue_nudge", keys, today)
        /\ JobFrame

\* the job cleanup_old_reminders
cleanup_job ==
    /\ Scheduled("cleanup_job", 0)
    /\ sent_reminders' = cleanup_old_reminders(sent_reminders, days_to_keep, today)
    /\ UNCHANGED delivered
    /\ JobFrame

\* the bot starts on any users table
InitProactive ==
    /\ now = 0
    /\ conversations = [u \in Users |-> << >>]
    /\ pending_proposals = [u \in Users |-> << >>]
    /\ sessions = [u \in Users |-> SessionState]
    /\ pc = Idle
    /\ display = [u \in Users |-> NoDisplay]
    /\ buttons = [u \in Users |-> {}]
    /\ mutation_calls = << >>
    /\ llm_calls = 0
    /\ last_call_id = 0
    /\ texts_sent = 0
    /\ unhandled = {}
    /\ users \in UNION {[ids -> [briefing_enabled : {0, 1},
                                 reminders_enabled : {0, 1},
                                 nudges_enabled : {0, 1}]] : ids \in SUBSET Users}
    /\ sent_reminders = {}
    /\ job_queue = setup_scheduled_jobs(users)
    /\ delivered = EmptyBag
    /\ today = 0

NextProactive ==
    \/ NextDay
    \/ \E u \in Users : start_command(u)
    \/ \E u \in Users : settings_command(u)
    \/ \E u \in Users :
          \E data \in {"settings_toggle_briefing", "settings_toggle_reminders",
                        "settings_toggle_nudges"} : handle_settings_toggle(u, data)
    \/ \E u \in Users, send_ok \in BOOLEAN : daily_briefing_job(u, send_ok)
    \/ \E in_window \in SUBSET EventIds :
          \E failed \in SUBSET (in_window \X Users) :
             event_reminder_check_job(in_window, failed)
    \/ \E overdue \in SUBSET Users :
          \E failed \in SUBSET overdue : overdue_nudge_job(overdue, failed)
    \/ cleanup_job

SpecProactive == InitProactive /\ [][NextProactive]_vars

\* =================================================================== claims

\* ------------------------------------------------ reading the conversation

\* the tool-call requests of the AI messages of conv
Requests(conv) ==
    UNION {{conv[i].tool_calls[j] : j \in 1..Len(conv[i].tool_calls)} :
              i \in {k \in 1..Len(conv) : conv[k].type = "ai"}}

\* the ToolResults of conv that answer tool-call id
ResultsFor(conv, id) ==
    {i \in 1..Len(conv) : conv[i].type = "tool" /\ conv[i].tool_call_id = id}

\* the ToolResults of conv that answer tool-call id with a dict holding
\* field = value
ResultsWith(conv, id, field, value) ==
    {i \in ResultsFor(conv, id) :
        field \in DOMAIN conv[i].content /\ conv[i].content[field] = value}

QueueIds(queue) == {queue[i].tool_call_id : i \in 1..Len(queue)}

DispatchedIds == {mutation_calls[i].tool_call_id : i \in 1..Len(mutation_calls)}

TaskTargetTools == {"propose_edit_task", "propose_delete_task", "propose_complete_task"}
EventTargetTools == {"propose_edit_event", "propose_delete_event"}

\* C1: the mutation collaborator is called only by handle_confirm, exactly
\* once per confirm of a non-empty queue and for the entry at the head of the
\* pressing user's queue, which the confirm removes; no step of the agent
\* loop or of the confirm follow-up (where propose_* tools run) calls it.
C1_MutationOnlyOnConfirm ==
    [][ mutation_calls' # mutation_calls =>
          /\ pc = Idle
          /\ Len(mutation_calls') = Len(mutation_calls) + 1
          /\ SubSeq(mutation_calls', 1, Len(mutation_calls)) = mutation_calls
          /\ \E u \in Users :
               /\ \E pressed \in buttons[u], api_ok \in BOOLEAN :
                      handle_confirm(u, pressed, api_ok)
               /\ pending_proposals[u] # << >>
               /\ pending_proposals'[u] = Tail(pending_proposals[u])
               /\ LET m == mutation_calls'[Len(mutation_calls')]
                      head == pending_proposals[u][1]
                  IN  /\ m.user = u
                      /\ m.tool_call_id = head.tool_call_id
                      /\ m.call \in {MutationCallsOf(head.proposal)[i] :
                                        i \in 1..Len(MutationCallsOf(head.proposal))}
      ]_vars

\* a confirm has dispatched the second entry of a queue of two
C1_Witness ==
    /\ Len(mutation_calls) = 2
    /\ mutation_calls[1].tool_call_id # mutation_calls[2].tool_call_id

\* C2 (as claimed, on the calls whose target id is not empty: an empty id
\* is not validated at all, see C26): every edit/delete/complete call made
\* on confirm targets an id that, when the call is made, is in the user's
\* allowed set of its kind, fetched less than 2 minutes before.
C2_DispatchTargetsFreshAllowedId ==
    [][ mutation_calls' # mutation_calls =>
          LET m == mutation_calls'[Len(mutation_calls')]
              s == sessions[m.user]
          IN  /\ (/\ m.call.fn \in {"edit_task", "delete_task", "complete_task"}
                  /\ m.call.task_id # "") =>
                    /\ m.call.task_id \in s.allowed_task_ids
                    /\ s.tasks_fetched_at # NoneTime
                    /\ now - s.tasks_fetched_at < 2
              /\ (/\ m.call.fn \in {"edit_event", "delete_event"}
                  /\ m.call.event_id # "") =>
                    /\ m.call.event_id \in s.allowed_event_ids
                    /\ s.calendar_fetched_at # NoneTime
                    /\ now - s.calendar_fetched_at < 2
      ]_vars

\* the position in conv of the AI message requesting tool-call id (0 if none)
RequestPos(conv, id) ==
    LET S == {i \in 1..Len(conv) :
                 /\ conv[i].type = "ai"
                 /\ \E j \in 1..Len(conv[i].tool_calls) : conv[i].tool_calls[j].id = id}
    IN  IF S = {} THEN 0 ELSE CHOOSE i \in S : TRUE

\* the position of the last user text before position pos (0 if none)
TurnStart(conv, pos) ==
    LET S == {i \in 1..pos : conv[i].type = "human"}
    IN  IF S = {} THEN 0 ELSE CHOOSE i \in S : \A k \in S : k <= i

\* the ids of the read calls, among the tools named, requested before
\* tool-call id in the turn that requests it (ids are issued in order)
PrecedingReads(conv, id, tools) ==
    LET pos == RequestPos(conv, id)
    IN  {r.id : r \in {q \in Requests(SubSeq(conv, TurnStart(conv, pos) + 1, pos)) :
                          q.name \in tools /\ q.id < id}}

\* the ids returned by read call rid, as its ToolResult in conv shows them
ItemsRead(conv, rid) ==
    UNION {conv[i].content.items : i \in ResultsFor(conv, rid)}

LastOf(S) == CHOOSE x \in S : \A y \in S : y <= x

TargetOf(q) ==
    IF q.name \in TaskTargetTools THEN q.args.task_id ELSE q.args.event_id

ReadToolsFor(q) ==
    IF q.name \in TaskTargetTools THEN {"get_tasks"}
    ELSE {"get_calendar_events", "get_today_events"}

UnknownIdError(q) ==
    IF q.name \in TaskTargetTools THEN UnknownTask ELSE UnknownEvent

\* C3 (as claimed): an edit/delete/complete proposal whose target id is not
\* in the result of the read of its kind that immediately precedes it in the
\* turn is answered with the UnknownId error and is not in the queue.
C3_UnreadTargetRejectedUnknownId ==
    \A u \in Users :
      \A q \in Requests(conversations[u]) :
        (/\ q.name \in TaskTargetTools \cup EventTargetTools
         /\ PrecedingReads(conversations[u], q.id, ReadToolsFor(q)) # {}
         /\ TargetOf(q) \notin
                ItemsRead(conversations[u],
                    LastOf(PrecedingReads(conversations[u], q.id, ReadToolsFor(q)))))
        => /\ ResultsWith(conversations[u], q.id, "error", UnknownIdError(q)) # {}
           /\ q.id \notin QueueIds(pending_proposals[u])

\* the messages a step appends to u's conversation
NewMessages(u) ==
    SubSeq(conversations'[u], Len(conversations[u]) + 1, Len(conversations'[u]))

\* C4: a proposal on an id of the allowed set of its kind, made when the
\* last read of that kind is 2 minutes old or more, is answered with the
\* Stale error and not queued; made less than 2 minutes after that read it
\* is queued and gets no ToolResult.  (Proposals that follow a read of their
\* kind in the same response are validated against that read instead.)
C4_StaleAfterTTL ==
    [][ pc.kind \in {"loop", "followup"} =>
          LET u == pc.user
              s == sessions[u]
              new == NewMessages(u)
          IN  \A q \in Requests(new) :
                (/\ q.name \in TaskTargetTools \cup EventTargetTools
                 /\ \A r \in Requests(new) :
                        ~(r.name \in ReadToolsFor(q) /\ r.id < q.id))
                => LET fetched == IF q.name \in TaskTargetTools
                                  THEN s.tasks_fetched_at ELSE s.calendar_fetched_at
                       allowed == IF q.name \in TaskTargetTools
                                  THEN s.allowed_task_ids ELSE s.allowed_event_ids
                       stale == IF q.name \in TaskTargetTools
                                THEN StaleTasks ELSE StaleCalendar
                   IN  (TargetOf(q) \in allowed /\ fetched # NoneTime) =>
                         IF now - fetched >= 2
                         THEN /\ ResultsWith(conversations'[u], q.id, "error", stale) # {}
                              /\ q.id \notin QueueIds(pending_proposals'[u])
                         ELSE /\ q.id \in QueueIds(pending_proposals'[u])
                              /\ ResultsFor(conversations'[u], q.id) = {}
      ]_vars

\* a proposal on an id still in the allowed set was rejected as stale
C4_Witness ==
    \E u \in Users :
      \E q \in Requests(conversations[u]) :
        /\ q.name \in TaskTargetTools
        /\ q.args.task_id \in sessions[u].allowed_task_ids
        /\ sessions[u].tasks_fetched_at # NoneTime
        /\ now - sessions[u].tasks_fetched_at >= 2
        /\ ResultsWith(conversations[u], q.id, "error", StaleTasks) # {}

\* C5 (as claimed): whenever the LLM is about to be called, every tool-call
\* request of the conversation passed to it has exactly one ToolResult.
C5_RequestsAnsweredAtLLMCall ==
    pc.kind \in {"loop", "followup"} =>
        \A q \in Requests(conversations[pc.user]) :
            Cardinality(ResultsFor(conversations[pc.user], q.id)) = 1

\* C6: a cancel with N entries pending appends exactly N ToolResults, the
\* i-th carrying the tool-call id of the i-th entry and the cancelled status,
\* and leaves the queue empty.
C6_CancelAnswersEveryEntry ==
    [][ \A u \in Users :
          (\E pressed \in buttons[u] : handle_cancel(u, pressed)) =>
            LET queue == pending_proposals[u]
                old == conversations[u]
                new == conversations'[u]
            IN  /\ pending_proposals'[u] = << >>
                /\ Len(new) = Len(old) + Len(queue)
                /\ SubSeq(new, 1, Len(old)) = old
                /\ \A i \in 1..Len(queue) :
                     /\ new[Len(old) + i].type = "tool"
                     /\ new[Len(old) + i].tool_call_id = queue[i].tool_call_id
                     /\ new[Len(old) + i].content.status = "cancelled"
      ]_vars

\* a queue of two entries was cancelled: both requests of one response are
\* answered with the cancelled status, in order, at the end of the conversation
C6_Witness ==
    \E u \in Users :
      LET conv == conversations[u]
          n == Len(conv)
      IN  /\ pending_proposals[u] = << >>
          /\ n >= 3
          /\ conv[n - 2].type = "ai"
          /\ Len(conv[n - 2].tool_calls) = 2
          /\ \A i \in 1..2 :
               /\ conv[n - 2 + i].type = "tool"
               /\ conv[n - 2 + i].tool_call_id = conv[n - 2].tool_calls[i].id
               /\ "status" \in DOMAIN conv[n - 2 + i].content
               /\ conv[n - 2 + i].content.status = "cancelled"

\* C7: a confirm pops exactly the head of the queue and dispatches it, an
\* entry not dispatched before; so N successive confirms dispatch N distinct
\* entries, and the confirm that takes the last entry leaves the queue empty
\* before its follow-up LLM call.  A dispatched entry is never queued again
\* nor presented for confirmation again.
C7_ConfirmDrainsQueue ==
    /\ [](\A u \in Users :
            /\ QueueIds(pending_proposals[u]) \cap DispatchedIds = {}
            /\ display[u].kind = "confirmation" =>
                   display[u].tool_call_id \notin DispatchedIds
            /\ \A i, j \in 1..Len(mutation_calls) :
                   mutation_calls[i].tool_call_id = mutation_calls[j].tool_call_id
                       => i = j)
    /\ [](pc.kind = "followup" => pending_proposals[pc.user] = << >>)
    /\ [][ \A u \in Users :
             (/\ \E pressed \in buttons[u], api_ok \in BOOLEAN :
                     handle_confirm(u, pressed, api_ok)
              /\ pending_proposals[u] # << >>)
             => /\ pending_proposals'[u] = Tail(pending_proposals[u])
                /\ DispatchedIds' =
                       DispatchedIds \cup {pending_proposals[u][1].tool_call_id}
                /\ pending_proposals[u][1].tool_call_id \notin DispatchedIds
                /\ Len(pending_proposals[u]) = 1 => pc'.kind = "followup"
                /\ Len(pending_proposals[u]) > 1 =>
                       /\ pc' = Idle
                       /\ display'[u].kind = "confirmation"
                       /\ display'[u].tool_call_id = pending_proposals[u][2].tool_call_id
         ]_vars

\* the two entries queued from one response have both been confirmed and the
\* queue is empty before the follow-up call
C7_Witness ==
    /\ pc.kind = "followup"
    /\ pending_proposals[pc.user] = << >>
    /\ \E q1, q2 \in Requests(conversations[pc.user]) :
         /\ q1.id + 1 = q2.id
         /\ Len(mutation_calls) = 2
         /\ mutation_calls[1].tool_call_id = q1.id
         /\ mutation_calls[2].tool_call_id = q2.id
         /\ RequestPos(conversations[pc.user], q1.id)
                = RequestPos(conversations[pc.user], q2.id)

\* a request of the conversation that has no ToolResult and is not queued
DroppedIn(conv, queue, id) ==
    /\ \E q \in Requests(conv) : q.id = id
    /\ ResultsFor(conv, id) = {}
    /\ id \notin QueueIds(queue)

Dropped(u, id) == DroppedIn(conversations[u], pending_proposals[u], id)

\* C8: a change request on a queue of N > 1 entries empties the queue and
\* appends exactly one ToolResult, for the head, with the change_requested
\* status and the head's proposal, and dispatches nothing; an entry dropped
\* without a ToolResult gets none later, is not dispatched and is not queued
\* again.
C8_ChangeDrainsAllAnswersHead ==
    /\ [][ \A u \in Users :
             (/\ \E pressed \in buttons[u] : handle_change(u, pressed)
              /\ Len(pending_proposals[u]) > 1)
             => LET old == conversations[u]
                    new == conversations'[u]
                    head == pending_proposals[u][1]
                IN  /\ pending_proposals'[u] = << >>
                    /\ mutation_calls' = mutation_calls
                    /\ Len(new) = Len(old) + 1
                    /\ SubSeq(new, 1, Len(old)) = old
                    /\ new[Len(new)].type = "tool"
                    /\ new[Len(new)].tool_call_id = head.tool_call_id
                    /\ new[Len(new)].content.status = "change_requested"
                    /\ new[Len(new)].content.original_proposal = head.proposal
                    /\ \A i \in 2..Len(pending_proposals[u]) :
                         DroppedIn(new, pending_proposals'[u],
                                   pending_proposals[u][i].tool_call_id)
         ]_vars
    /\ [][ \A u \in Users : \A id \in 1..last_call_id :
             Dropped(u, id) =>
                /\ ResultsFor(conversations'[u], id) = {}
                /\ id \notin DispatchedIds'
                /\ id \notin QueueIds(pending_proposals'[u])
         ]_vars

\* a change request on a queue of two has answered the first request of a
\* response and dropped the second
C8_Witness ==
    \E u \in Users :
      LET conv == conversations[u]
          n == Len(conv)
      IN  /\ n >= 2
          /\ conv[n].type = "tool"
          /\ "status" \in DOMAIN conv[n].content
          /\ conv[n].content.status = "change_requested"
          /\ conv[n - 1].type = "ai"
          /\ Len(conv[n - 1].tool_calls) = 2
          /\ conv[n].tool_call_id = conv[n - 1].tool_calls[1].id
          /\ Dropped(u, conv[n - 1].tool_calls[2].id)
          /\ display[u].kind = "change_prompt"

\* C9 (as claimed): a step that puts new entries in a user's queue keeps the
\* entries that were pending, ahead of the new ones and in their order.
C9_EnqueueAppends ==
    [][ \A u \in Users :
          QueueIds(pending_proposals'[u]) \ QueueIds(pending_proposals[u]) # {} =>
             /\ Len(pending_proposals'[u]) >= Len(pending_proposals[u])
             /\ SubSeq(pending_proposals'[u], 1, Len(pending_proposals[u]))
                    = pending_proposals[u]
      ]_vars

TroubleReply == TextReply("I'm having trouble processing that. Can you try again?")

\* the response just appended to u's conversation asked for tools and every
\* one of its tool calls was answered at once (a read or a rejected proposal)
NonTerminalResponse(u) ==
    LET new == NewMessages(u)
    IN  /\ new # << >>
        /\ new[1].type = "ai"
        /\ new[1].tool_calls # << >>
        /\ \A q \in Requests(new) : ResultsFor(new, q.id) # {}

\* C10: a turn makes at most 5 LLM calls: the loop never stands before a
\* sixth one, the fifth call ends the turn, and if the fifth response is
\* again only reads or rejected proposals the user is shown the fixed
\* "trouble processing" text.  As every LLM call returns, every turn ends.
C10_TurnBoundedByFiveCalls ==
    /\ [](llm_calls <= 5 /\ (pc.kind = "loop" => llm_calls < 5))
    /\ (pc.kind = "loop") ~> (pc = Idle)
    /\ [][ (pc.kind = "loop" /\ llm_calls' = 5) =>
             /\ pc' = Idle
             /\ NonTerminalResponse(pc.user) => display'[pc.user] = TroubleReply
         ]_vars

\* a turn ended on its fifth call with the fallback text
C10_Witness ==
    /\ pc = Idle
    /\ llm_calls = 5
    /\ \E u \in Users :
         /\ display[u] = TroubleReply
         /\ Cardinality({i \in 1..Len(conversations[u]) : conversations[u][i].type = "ai"}) >= 5

\* C11 (as claimed): a response that yields an accepted proposal ends the turn
\* with the batch queued, and the LLM is not called for a user whose queue is
\* not empty: a handler stands before an LLM call only with that user's queue
\* empty.
C11_NoLLMCallWhileQueued ==
    /\ [][ \A u \in Users :
             (/\ pc.kind \in {"loop", "followup"}
              /\ pc.user = u
              /\ QueueIds(pending_proposals'[u]) \ QueueIds(pending_proposals[u]) # {})
             => (pc' = Idle /\ display'[u].kind = "confirmation")
         ]_vars
    /\ [](pc.kind \in {"loop", "followup"} => pending_proposals[pc.user] = << >>)

\* C12: /start leaves the user with an empty conversation, no pending queue
\* and a cleared session (no allowed ids, both fetch times unset), and a
\* second /start from there changes none of them: clearing the cleared
\* session gives the same session.
C12_ResetIdempotent ==
    [][ \A u \in Users :
          start_command(u) =>
            /\ conversations'[u] = << >>
            /\ pending_proposals'[u] = << >>
            /\ sessions'[u] = [allowed_event_ids |-> {}, allowed_task_ids |-> {},
                               calendar_fetched_at |-> NoneTime,
                               tasks_fetched_at |-> NoneTime]
            /\ SessionClear(sessions'[u]) = sessions'[u]
      ]_vars

\* /start was the last thing the user did, after a proposal had been shown
\* and a mutation dispatched
C12_Witness ==
    \E u \in Users :
        /\ display[u] = TextReply("Hi!")
        /\ conversations[u] = << >>
        /\ pending_proposals[u] = << >>
        /\ sessions[u] = SessionState
        /\ buttons[u] # {}
        /\ mutation_calls # << >>

\* the fields of a proposal that are only shown to the user
DisplayOnlyFields ==
    {"current_title", "current_datetime", "task_title", "event_title",
     "event_datetime"}

WithoutDisplayOnly(proposal) ==
    [f \in DOMAIN proposal \ DisplayOnlyFields |-> proposal[f]]

\* the proposal queued for the tool call id of u's conversation
ProposalOfCall(u, id) ==
    LET q == CHOOSE r \in Requests(conversations[u]) : r.id = id
    IN  InvokeProposalTool(q.name, q.args)

\* C13: a mutation call has no display-only field, and two proposals that
\* agree on every other field produce the same mutation call.
C13_CallIgnoresDisplayFields ==
    \A i, j \in 1..Len(mutation_calls) :
        /\ DOMAIN mutation_calls[i].call \cap DisplayOnlyFields = {}
        /\ WithoutDisplayOnly(ProposalOfCall(mutation_calls[i].user,
                                             mutation_calls[i].tool_call_id))
             = WithoutDisplayOnly(ProposalOfCall(mutation_calls[j].user,
                                                 mutation_calls[j].tool_call_id))
           => mutation_calls[i].call = mutation_calls[j].call

\* two proposals differing only in display-only fields were both dispatched
C13_Witness ==
    /\ Len(mutation_calls) = 2
    /\ LET p1 == ProposalOfCall(mutation_calls[1].user, mutation_calls[1].tool_call_id)
           p2 == ProposalOfCall(mutation_calls[2].user, mutation_calls[2].tool_call_id)
       IN  /\ p1 # p2
           /\ WithoutDisplayOnly(p1) = WithoutDisplayOnly(p2)
           /\ p1.proposal_type = "delete_event"

\* C14: a step that presents a proposal for confirmation presents the head
\* of the user's queue, with the prefix "[1/k]" when the queue then holds
\* k > 1 entries and with no prefix when it holds one.
C14_PrefixCountsQueue ==
    [][ \A u \in Users :
          (display'[u] # display[u] /\ display'[u].kind = "confirmation") =>
            LET queue == pending_proposals'[u]
            IN  /\ queue # << >>
                /\ display'[u].tool_call_id = queue[1].tool_call_id
                /\ display'[u].proposal = queue[1].proposal
                /\ display'[u].prefix_total = IF Len(queue) > 1 THEN Len(queue) ELSE 0
      ]_vars

\* two create proposals were queued from one response, the first has been
\* confirmed and the second is shown without a prefix
C14_Witness ==
    \E u \in Users :
      \E q1, q2 \in Requests(conversations[u]) :
        /\ q1.name = "propose_create_task" /\ q2.name = "propose_create_task"
        /\ q1.id + 1 = q2.id
        /\ RequestPos(conversations[u], q1.id) = RequestPos(conversations[u], q2.id)
        /\ q1.id \in DispatchedIds
        /\ QueueIds(pending_proposals[u]) = {q2.id}
        /\ display[u].kind = "confirmation"
        /\ display[u].tool_call_id = q2.id
        /\ display[u].prefix_total = 0

\* the same response, just queued: the first is shown as "[1/2]"
C14_WitnessFirstOfTwo ==
    \E u \in Users :
        /\ Len(pending_proposals[u]) = 2
        /\ display[u].kind = "confirmation"
        /\ display[u].tool_call_id = pending_proposals[u][1].tool_call_id
        /\ display[u].prefix_total = 2

\* C15 (as claimed): no handler ends by an exception that nothing caught,
\* whatever tools and arguments the LLM's responses name.
C15_NoUnhandledFault == unhandled = {}

Fresh(fetched_at, t) == fetched_at # NoneTime /\ t - fetched_at < 2

\* C17: for every session and id, validation of either kind answers Stale
\* when the kind was never fetched or its fetch is 2 minutes old or more
\* (whether or not the id is allowed), UnknownId when the fetch is fresh and
\* the id is not allowed, and succeeds exactly when the fetch is fresh and
\* the id is allowed.
C17_ValidateByFreshnessThenMembership ==
    \A u \in Users :
      LET s == sessions[u] IN
      /\ \A id \in ValidateTaskIds \cup {""} :
           LET v == validate_task_proposal(s, id, now)
           IN  /\ v.valid <=> (Fresh(s.tasks_fetched_at, now) /\ id \in s.allowed_task_ids)
               /\ ~Fresh(s.tasks_fetched_at, now) => v.error = StaleTasks
               /\ (Fresh(s.tasks_fetched_at, now) /\ id \notin s.allowed_task_ids)
                      => v.error = UnknownTask
      /\ \A id \in ValidateEventIds \cup {""} :
           LET v == validate_event_proposal(s, id, now)
           IN  /\ v.valid <=> (Fresh(s.calendar_fetched_at, now) /\ id \in s.allowed_event_ids)
               /\ ~Fresh(s.calendar_fetched_at, now) => v.error = StaleCalendar
               /\ (Fresh(s.calendar_fetched_at, now) /\ id \notin s.allowed_event_ids)
                      => v.error = UnknownEvent

\* a proposal on a task id outside the allowed set was answered Stale, the
\* fetch being 2 minutes old, while another id is allowed
C17_Witness ==
    \E u \in Users :
      \E q \in Requests(conversations[u]) :
        /\ q.name = "propose_delete_task"
        /\ q.args.task_id \notin sessions[u].allowed_task_ids
        /\ sessions[u].allowed_task_ids # {}
        /\ sessions[u].tasks_fetched_at # NoneTime
        /\ ResultsWith(conversations[u], q.id, "error", StaleTasks) # {}

\* the ids of the tool calls of conv that name one of tools
CallsOf(conv, tools) == {q.id : q \in {r \in Requests(conv) : r.name \in tools}}

\* C18: after a response is processed, the allowed set of a kind is exactly
\* the ids returned by the last read of that kind in the response, stamped
\* with the current time, whatever the set held before; without a read of
\* the kind the set is unchanged.  get_calendar_events and get_today_events
\* both are reads of the calendar kind.
C18_ReadReplacesAllowedSet ==
    [][ pc.kind \in {"loop", "followup"} =>
          LET u == pc.user
              new == NewMessages(u)
              tr == CallsOf(new, {"get_tasks"})
              cr == CallsOf(new, {"get_calendar_events", "get_today_events"})
          IN  /\ IF tr = {}
                 THEN sessions'[u].allowed_task_ids = sessions[u].allowed_task_ids
                 ELSE /\ sessions'[u].allowed_task_ids = ItemsRead(new, LastOf(tr)) \ {""}
                      /\ sessions'[u].tasks_fetched_at = now
              /\ IF cr = {}
                 THEN sessions'[u].allowed_event_ids = sessions[u].allowed_event_ids
                 ELSE /\ sessions'[u].allowed_event_ids = ItemsRead(new, LastOf(cr)) \ {""}
                      /\ sessions'[u].calendar_fetched_at = now
      ]_vars

\* get_calendar_events returned e1, get_today_events then returned nothing,
\* and a delete proposal on e1 was answered UnknownId
C18_Witness ==
    \E u \in Users :
      \E r1, r2, q \in Requests(conversations[u]) :
        /\ r1.name = "get_calendar_events" /\ r2.name = "get_today_events"
        /\ q.name = "propose_delete_event"
        /\ r1.id < r2.id /\ r2.id < q.id
        /\ q.args.event_id \in ItemsRead(conversations[u], r1.id)
        /\ q.args.event_id \notin ItemsRead(conversations[u], r2.id)
        /\ ResultsWith(conversations[u], q.id, "error", UnknownEvent) # {}

\* the last n messages of conv
LastMessages(conv, n) ==
    IF Len(conv) > n THEN SubSeq(conv, Len(conv) - n + 1, Len(conv)) ELSE conv

\* C19: a stored conversation never holds more than 20 messages; what a step
\* keeps of the old conversation is its newest part, in order, at the front
\* of the new one, and nothing is dropped unless the new one is full; a user
\* text on a conversation of 20 drops exactly the oldest message.
C19_BoundedOldestDropped ==
    /\ [](\A u \in Users : Len(conversations[u]) <= 20)
    /\ [][ \A u \in Users :
             \/ conversations'[u] = << >>
             \/ \E d \in 0..Len(conversations[u]) :
                  LET kept == SubSeq(conversations[u], d + 1, Len(conversations[u]))
                  IN  /\ Len(conversations'[u]) >= Len(kept)
                      /\ SubSeq(conversations'[u], 1, Len(kept)) = kept
                      /\ d > 0 => Len(conversations'[u]) = 20
         ]_vars
    /\ [][ \A u \in Users :
             handle_message(u) =>
                 conversations'[u] =
                     LastMessages(Append(conversations[u], [type |-> "human"]), 20)
         ]_vars

\* a user text has pushed the first message out of a full conversation
C19_Witness ==
    \E u \in Users :
        /\ Len(conversations[u]) = 20
        /\ pc.kind = "loop"
        /\ pc.iteration = 0
        /\ conversations[u][20].type = "human"
        /\ conversations[u][1].type = "ai"
        /\ conversations[u][1].tool_calls # << >>

\* C20 (as claimed): every ToolResult of a stored conversation comes after
\* the agent message of that conversation whose tool call it answers.
C20_NoOrphanToolResult ==
    \A u \in Users :
      \A i \in 1..Len(conversations[u]) :
        conversations[u][i].type = "tool" =>
          \E j \in 1..(i - 1) :
            /\ conversations[u][j].type = "ai"
            /\ \E k \in 1..Len(conversations[u][j].tool_calls) :
                 conversations[u][j].tool_calls[k].id = conversations[u][i].tool_call_id

\* C21: a handler run for user a (text, its LLM responses with their reads
\* and proposals, confirm and its follow-up, cancel, change, /start) leaves
\* the conversation, the session and the pending queue of every other user
\* as they were.
C21_PerUserIndependence ==
    [][ \A a \in TwoUsers :
          OperationFor(a) =>
            \A b \in TwoUsers \ {a} :
                /\ conversations'[b] = conversations[b]
                /\ sessions'[b] = sessions[b]
                /\ pending_proposals'[b] = pending_proposals[b]
      ]_vars

\* user 2 has read the tasks and has a proposal pending while user 1, whose
\* proposal was dispatched, has just reset
C21_Witness ==
    /\ pending_proposals[2] # << >>
    /\ sessions[2].allowed_task_ids # {}
    /\ conversations[2] # << >>
    /\ display[1] = TextReply("Hi!")
    /\ conversations[1] = << >>
    /\ \E i \in 1..Len(mutation_calls) : mutation_calls[i].user = 1

\* the reads of the kind of proposal q requested before q in the messages new
ReadsBefore(new, q) ==
    {r.id : r \in {x \in Requests(new) : x.name \in ReadToolsFor(q) /\ x.id < q.id}}

\* proposal q of the response appended as new passes the session validation:
\* it names no target, or its target was returned by the read of its kind
\* that precedes it in the response, or (without such a read) is in the
\* allowed set s fetched less than 2 minutes before t
PassesValidation(new, q, s, t) ==
    \/ q.name \notin TaskTargetTools \cup EventTargetTools
    \/ TargetOf(q) = ""
    \/ IF ReadsBefore(new, q) # {}
       THEN TargetOf(q) \in ItemsRead(new, LastOf(ReadsBefore(new, q)))
       ELSE IF q.name \in TaskTargetTools
            THEN Fresh(s.tasks_fetched_at, t) /\ TargetOf(q) \in s.allowed_task_ids
            ELSE Fresh(s.calendar_fetched_at, t) /\ TargetOf(q) \in s.allowed_event_ids

\* C22: a confirm that leaves entries in the queue calls no LLM and presents
\* the next head; one that empties the queue is followed by exactly one LLM
\* call, after which the handler ends; the tool calls of that response are
\* branched as in the main loop: a read is answered with its result and
\* replaces the allowed set, a proposal failing validation is answered with
\* an error and not queued, every other proposal is queued, in order.
C22_ConfirmFollowUpOnce ==
    /\ [](pc.kind = "followup" => (llm_calls = 0 /\ pending_proposals[pc.user] = << >>))
    /\ [][ \A u \in Users :
             (/\ \E pressed \in buttons[u], api_ok \in BOOLEAN :
                     handle_confirm(u, pressed, api_ok)
              /\ pending_proposals[u] # << >>)
             => IF Len(pending_proposals[u]) > 1
                THEN /\ pc' = Idle
                     /\ llm_calls' = 0
                     /\ display'[u].kind = "confirmation"
                     /\ display'[u].tool_call_id = pending_proposals[u][2].tool_call_id
                ELSE /\ pc'.kind = "followup"
                     /\ pc'.user = u
                     /\ llm_calls' = 0
         ]_vars
    /\ [][ (pc.kind = "followup" /\ pc' # pc) =>
             LET u == pc.user
                 new == NewMessages(u)
                 queue == pending_proposals'[u]
                 tr == CallsOf(new, {"get_tasks"})
             IN  /\ llm_calls' = 1
                 /\ pc' = Idle
                 /\ \A q \in Requests(new) :
                      IF q.name \in READ_TOOLS
                      THEN /\ Cardinality(ResultsFor(new, q.id)) = 1
                           /\ \A i \in ResultsFor(new, q.id) : "items" \in DOMAIN new[i].content
                           /\ q.id \notin QueueIds(queue)
                      ELSE IF PassesValidation(new, q, sessions[u], now)
                           THEN /\ q.id \in QueueIds(queue)
                                /\ ResultsFor(new, q.id) = {}
                           ELSE /\ q.id \notin QueueIds(queue)
                                /\ Cardinality(ResultsFor(new, q.id)) = 1
                                /\ \A i \in ResultsFor(new, q.id) :
                                       "error" \in DOMAIN new[i].content
                 /\ QueueIds(queue) \subseteq {q.id : q \in Requests(new)}
                 /\ \A i, j \in 1..Len(queue) :
                        i < j => queue[i].tool_call_id < queue[j].tool_call_id
                 /\ IF tr = {}
                    THEN sessions'[u].allowed_task_ids = sessions[u].allowed_task_ids
                    ELSE /\ sessions'[u].allowed_task_ids = ItemsRead(new, LastOf(tr)) \ {""}
                         /\ sessions'[u].tasks_fetched_at = now
         ]_vars

\* the follow-up response of a confirm, made when the tasks read was
\* 2 minutes old, read the tasks again and proposed a delete of a task
\* returned, which is queued
C22_Witness ==
    \E u \in Users :
      \E q1, q2 \in Requests(conversations[u]) :
        /\ q1.name = "get_tasks" /\ q2.name = "propose_delete_task"
        /\ q1.id + 1 = q2.id
        /\ q1.id > 2
        /\ RequestPos(conversations[u], q1.id) = RequestPos(conversations[u], q2.id)
        /\ QueueIds(pending_proposals[u]) = {q2.id}
        /\ sessions[u].tasks_fetched_at = 2
        /\ mutation_calls # << >>
        /\ pc = Idle

\* C23: a confirm or a change request of a user with nothing pending makes no
\* mutation call and no LLM call, appends nothing to the conversation and
\* leaves conversation, session and queue as they were; the user is shown
\* the "No pending action" text.
C23_NothingPendingNoOp ==
    [][ \A u \in Users :
          (/\ pending_proposals[u] = << >>
           /\ \/ \E pressed \in buttons[u], api_ok \in BOOLEAN :
                     handle_confirm(u, pressed, api_ok)
              \/ \E pressed \in buttons[u] : handle_change(u, pressed))
          => /\ conversations' = conversations
             /\ sessions' = sessions
             /\ pending_proposals' = pending_proposals
             /\ mutation_calls' = mutation_calls
             /\ pc' = Idle
             /\ llm_calls' = 0
             /\ display'[u] \in {TextReply("No pending action to confirm."),
                                 TextReply("No pending action to change.")}
      ]_vars

\* Change was pressed on a confirmation message left from a queue since
\* cancelled: the conversation ends with the cancellation
C23_Witness ==
    \E u \in Users :
        /\ display[u] = TextReply("No pending action to change.")
        /\ pending_proposals[u] = << >>
        /\ Len(conversations[u]) >= 1
        /\ conversations[u][Len(conversations[u])].type = "tool"
        /\ "status" \in DOMAIN conversations[u][Len(conversations[u])].content
        /\ conversations[u][Len(conversations[u])].content.status = "cancelled"

\* Confirm was pressed with nothing pending
C23_WitnessConfirm ==
    \E u \in Users :
        /\ display[u] = TextReply("No pending action to confirm.")
        /\ pending_proposals[u] = << >>
        /\ conversations[u] # << >>

\* the error the session validation gives proposal q of the response new
\* when it does not pass
ExpectedError(new, q, s, t) ==
    IF q.name \in TaskTargetTools
    THEN IF ReadsBefore(new, q) = {} /\ ~Fresh(s.tasks_fetched_at, t)
         THEN StaleTasks ELSE UnknownTask
    ELSE IF ReadsBefore(new, q) = {} /\ ~Fresh(s.calendar_fetched_at, t)
         THEN StaleCalendar ELSE UnknownEvent

\* the ToolResults of conv that carry a validation error
ErrorResults(conv) ==
    {[tool_call_id |-> conv[i].tool_call_id, content |-> conv[i].content] :
        i \in {k \in 1..Len(conv) :
                  conv[k].type = "tool" /\ "error" \in DOMAIN conv[k].content
                  /\ "action_required" \in DOMAIN conv[k].content}}

\* C24: in the main loop and in the confirm follow-up, a proposal that fails
\* the session validation gets exactly one ToolResult, after the response
\* that requested it, with its tool-call id and the validation error, and is
\* not queued; the ToolResult stays in the stored conversation (which every
\* later LLM call is given) until /start empties it or the bound of 20
\* messages pushes it out.
C24_RejectionAnswered ==
    /\ [][ pc.kind \in {"loop", "followup"} =>
             LET u == pc.user
                 new == NewMessages(u)
             IN  \A q \in Requests(new) :
                   (q.name \in PROPOSAL_TOOL_NAMES
                    /\ ~PassesValidation(new, q, sessions[u], now))
                   => /\ Cardinality(ResultsFor(new, q.id)) = 1
                      /\ \A i \in ResultsFor(new, q.id) :
                           /\ i > 1
                           /\ DOMAIN new[i].content = {"error", "action_required"}
                           /\ new[i].content.error =
                                  ExpectedError(new, q, sessions[u], now)
                      /\ q.id \notin QueueIds(pending_proposals'[u])
         ]_vars
    /\ [][ \A u \in Users :
             \/ ErrorResults(conversations[u]) \subseteq ErrorResults(conversations'[u])
             \/ start_command(u)
             \/ Len(conversations'[u]) = MAX_CONVERSATION_MESSAGES
         ]_vars

\* the follow-up response of a confirm proposed a delete of a task that was
\* never read: it is answered with the Stale error of the follow-up and the
\* queue is empty
C24_Witness ==
    \E u \in Users :
      \E q \in Requests(conversations[u]) :
        /\ q.name = "propose_delete_task"
        /\ q.args.task_id # ""
        /\ mutation_calls # << >>
        /\ mutation_calls[1].tool_call_id < q.id
        /\ \E i \in ResultsWith(conversations[u], q.id, "error", StaleTasks) :
               conversations[u][i].content.action_required = "Fetch fresh data first"
        /\ pending_proposals[u] = << >>

\* the same in the main loop
C24_WitnessLoop ==
    \E u \in Users :
      \E q \in Requests(conversations[u]) :
        /\ q.name = "propose_delete_task"
        /\ \E i \in ResultsWith(conversations[u], q.id, "error", UnknownTask) :
               conversations[u][i].content.action_required
                   = "Fetch fresh data before proposing changes"

\* what llm_handler.chat returns when the call raises (the 120 s timeout of
\* the client included)
FailureReply == "Sorry, I had trouble processing that. Can you try again?"

\* C25: when an LLM call of the agent loop fails, the turn ends with that
\* call: the user is shown the fixed fallback text, no further call is made
\* in the turn, no tool is executed (session and mutation calls unchanged),
\* nothing is queued, and the conversation given to the call holds the
\* user's message of the turn (as its last message on the first call).
C25_LLMFailureEndsTurn ==
    [][ \A u \in Users :
          (pc.kind = "loop" /\ pc.user = u /\ LoopStep(u, FailureReply, << >>))
          => /\ pc' = Idle
             /\ llm_calls' = llm_calls + 1
             /\ display'[u] = TextReply(FailureReply)
             /\ sessions' = sessions
             /\ mutation_calls' = mutation_calls
             /\ pending_proposals' = pending_proposals
             /\ buttons' = buttons
             /\ NewMessages(u) = << AIMessage(FailureReply, << >>) >>
             /\ TurnStart(conversations[u], Len(conversations[u])) > 0
             /\ pc.iteration = 0 =>
                    conversations[u][Len(conversations[u])].type = "human"
      ]_vars

\* the second LLM call of a turn, made after a read, failed: the turn has
\* ended after two calls with the fallback text
C25_Witness ==
    \E u \in Users :
      LET conv == conversations[u]
          n == Len(conv)
      IN  /\ pc = Idle
          /\ llm_calls = 2
          /\ display[u] = TextReply(FailureReply)
          /\ n >= 4
          /\ conv[n] = AIMessage(FailureReply, << >>)
          /\ conv[n - 1].type = "tool"
          /\ conv[n - 3].type = "human"

\* the first LLM call of a turn failed
C25_WitnessFirstCall ==
    \E u \in Users :
      LET conv == conversations[u]
          n == Len(conv)
      IN  /\ pc = Idle
          /\ llm_calls = 1
          /\ display[u] = TextReply(FailureReply)
          /\ n >= 2
          /\ conv[n] = AIMessage(FailureReply, << >>)
          /\ conv[n - 1].type = "human"

\* the target of proposal q of the response new is an id returned by the
\* read of its kind that precedes it in the response or, without such a
\* read, an id of the allowed set s fetched less than 2 minutes before t
TargetValidated(new, q, s, t) ==
    IF ReadsBefore(new, q) # {}
    THEN TargetOf(q) \in ItemsRead(new, LastOf(ReadsBefore(new, q)))
    ELSE IF q.name \in TaskTargetTools
         THEN Fresh(s.tasks_fetched_at, t) /\ TargetOf(q) \in s.allowed_task_ids
         ELSE Fresh(s.calendar_fetched_at, t) /\ TargetOf(q) \in s.allowed_event_ids

\* C26 (as claimed): every edit/delete/complete entry a step of the agent
\* loop or of the confirm follow-up puts in the queue has a target id that
\* is, at that moment, in the allowed set of its kind and fresh, whatever
\* the id the LLM gave (the empty string included).
C26_QueuedTargetsValidated ==
    [][ pc.kind \in {"loop", "followup"} =>
          LET u == pc.user
              new == NewMessages(u)
          IN  \A q \in Requests(new) :
                (/\ q.name \in TaskTargetTools \cup EventTargetTools
                 /\ q.id \in QueueIds(pending_proposals'[u]))
                => TargetValidated(new, q, sessions[u], now)
      ]_vars

\* C27 (as claimed): a press of the Confirm button of a confirmation message
\* dispatches the proposal that message shows (the message is named by the
\* tool-call id of the proposal it was sent for), never another one.
C27_ConfirmDispatchesDisplayed ==
    [][ \A u \in Users : \A pressed \in buttons[u] :
          (/\ \E api_ok \in BOOLEAN : handle_confirm(u, pressed, api_ok)
           /\ mutation_calls' # mutation_calls)
          => mutation_calls'[Len(mutation_calls')].tool_call_id = pressed
      ]_vars

\* the positions of the ToolResults among the messages new
ToolPositions(new) == {i \in 1..Len(new) : new[i].type = "tool"}

\* C28: the tool calls of a response of the agent loop are processed one
\* after the other in the order returned (their ToolResults follow in that
\* order), each seeing the session as the earlier ones left it: a proposal
\* on an id that comes after a read of its kind in the response is queued
\* exactly when that read returned the id, whatever the session held before,
\* and one that comes before the read (or without one) is queued exactly
\* when the id was allowed and fresh in the session before the response,
\* whatever the read returns.
C28_ToolCallsInOrder ==
    [][ pc.kind = "loop" =>
          LET u == pc.user
              new == NewMessages(u)
              s == sessions[u]
          IN  /\ \A i, j \in ToolPositions(new) :
                     i < j => new[i].tool_call_id < new[j].tool_call_id
              /\ \A q \in Requests(new) :
                    (q.name \in TaskTargetTools \cup EventTargetTools /\ TargetOf(q) # "")
                    => LET before == ReadsBefore(new, q)
                           accepted ==
                               IF before # {}
                               THEN TargetOf(q) \in ItemsRead(new, LastOf(before))
                               ELSE IF q.name \in TaskTargetTools
                                    THEN /\ Fresh(s.tasks_fetched_at, now)
                                         /\ TargetOf(q) \in s.allowed_task_ids
                                    ELSE /\ Fresh(s.calendar_fetched_at, now)
                                         /\ TargetOf(q) \in s.allowed_event_ids
                       IN  /\ accepted <=> q.id \in QueueIds(pending_proposals'[u])
                           /\ accepted <=> ResultsFor(new, q.id) = {}
      ]_vars

\* one response read the tasks, then proposed a delete of the task returned:
\* the proposal is queued, the session having held nothing before
C28_Witness ==
    \E u \in Users :
      \E r, q \in Requests(conversations[u]) :
        /\ r.name = "get_tasks" /\ q.name = "propose_delete_task"
        /\ r.id = 1 /\ q.id = 2
        /\ RequestPos(conversations[u], r.id) = RequestPos(conversations[u], q.id)
        /\ q.args.task_id \in ItemsRead(conversations[u], r.id)
        /\ QueueIds(pending_proposals[u]) = {q.id}
        /\ mutation_calls = << >>

\* one response proposed the delete, then read the tasks: the proposal is
\* answered Stale although the read returned its task
C28_WitnessReverse ==
    \E u \in Users :
      \E q, r \in Requests(conversations[u]) :
        /\ r.name = "get_tasks" /\ q.name = "propose_delete_task"
        /\ q.id = 1 /\ r.id = 2
        /\ RequestPos(conversations[u], r.id) = RequestPos(conversations[u], q.id)
        /\ q.args.task_id \in ItemsRead(conversations[u], r.id)
        /\ ResultsWith(conversations[u], q.id, "error", StaleTasks) # {}
        /\ pending_proposals[u] = << >>

CalendarFields(s) == <<s.allowed_event_ids, s.calendar_fetched_at>>
TasksFields(s) == <<s.allowed_task_ids, s.tasks_fetched_at>>

\* C29: a user's session changes only in a step of the agent loop or of the
\* confirm follow-up whose response executes a read tool, and in /start; the
\* calendar fields change only if the response has a calendar read and the
\* tasks fields only if it has a tasks read; a step that queues or rejects
\* proposals without a read, a confirm (with its dispatched mutation), a
\* cancel and a change request leave the four fields as they were.
C29_SessionFrame ==
    [][ \A u \in Users :
          LET new == NewMessages(u)
              in_response == pc.kind \in {"loop", "followup"} /\ pc.user = u
          IN  /\ sessions'[u] # sessions[u] =>
                     \/ start_command(u)
                     \/ in_response /\ CallsOf(new, READ_TOOLS) # {}
              /\ (in_response /\ CallsOf(new, {"get_tasks"}) = {}) =>
                     TasksFields(sessions'[u]) = TasksFields(sessions[u])
              /\ (in_response
                  /\ CallsOf(new, {"get_calendar_events", "get_today_events"}) = {}) =>
                     CalendarFields(sessions'[u]) = CalendarFields(sessions[u])
              /\ (\/ \E pressed \in buttons[u], api_ok \in BOOLEAN :
                         handle_confirm(u, pressed, api_ok)
                  \/ \E pressed \in buttons[u] : handle_cancel(u, pressed)
                  \/ \E pressed \in buttons[u] : handle_change(u, pressed)) =>
                     sessions'[u] = sessions[u]
      ]_vars

\* the tasks were read at minute 0 and the calendar at minute 1: the tasks
\* fields are those of the first read
C29_Witness ==
    \E u \in Users :
        /\ sessions[u].tasks_fetched_at = 0
        /\ sessions[u].allowed_task_ids # {}
        /\ sessions[u].calendar_fetched_at = 1
        /\ sessions[u].allowed_event_ids # {}

\* a delete of a task read was confirmed and dispatched: the session still
\* holds the task
C29_WitnessConfirm ==
    \E u \in Users :
        /\ \E i \in 1..Len(mutation_calls) :
              /\ mutation_calls[i].call.fn = "delete_task"
              /\ mutation_calls[i].call.task_id \in sessions[u].allowed_task_ids
        /\ pc = Idle

\* C30 (as claimed): every LLM call, of the agent loop or of the confirm
\* follow-up, has its response appended to the user's conversation, ahead
\* of the ToolResults of its tool calls, whether the response carries text,
\* tool calls or neither.
C30_ResponseAlwaysAppended ==
    [][ (pc.kind \in {"loop", "followup"} /\ llm_calls' # llm_calls) =>
          LET new == NewMessages(pc.user)
          IN  /\ new # << >>
              /\ new[1].type = "ai"
      ]_vars

\* the same, for the calls of the agent loop only
C30_LoopResponseAppended ==
    [][ (pc.kind = "loop" /\ llm_calls' # llm_calls) =>
          LET new == NewMessages(pc.user)
          IN  /\ new # << >>
              /\ new[1].type = "ai"
              /\ \A i \in 2..Len(new) : new[i].type = "tool"
      ]_vars

\* the positions of the agent messages among the messages new
AIPositions(new) == {i \in 1..Len(new) : new[i].type = "ai"}

\* C31 (as claimed): a step of the agent loop or of the confirm follow-up,
\* which makes one LLM call, appends at most one agent message to the
\* user's conversation.
C31_ResponseAppendedOnce ==
    [][ (pc.kind \in {"loop", "followup"} /\ llm_calls' # llm_calls) =>
          Cardinality(AIPositions(NewMessages(pc.user))) <= 1
      ]_vars

\* the same, for the calls of the agent loop only
C31_LoopResponseAppendedOnce ==
    [][ (pc.kind = "loop" /\ llm_calls' # llm_calls) =>
          Cardinality(AIPositions(NewMessages(pc.user))) <= 1
      ]_vars

\* the entries of a queue are in the order their tool calls were requested,
\* a dispatch takes the head, and the proposal last presented to a user
\* for confirmation is the head of that user's queue
C32_FifoOrder ==
    /\ [](\A u \in Users :
            /\ \A i, j \in 1..Len(pending_proposals[u]) :
                   i < j => pending_proposals[u][i].tool_call_id
                               < pending_proposals[u][j].tool_call_id
            /\ display[u].kind = "confirmation" =>
                   /\ pending_proposals[u] # << >>
                   /\ display[u].tool_call_id = pending_proposals[u][1].tool_call_id)
    /\ [][ mutation_calls' # mutation_calls =>
             LET m == mutation_calls'[Len(mutation_calls')]
             IN  /\ pending_proposals[m.user] # << >>
                 /\ m.tool_call_id = pending_proposals[m.user][1].tool_call_id
                 /\ pending_proposals'[m.user] = Tail(pending_proposals[m.user])
         ]_vars

\* C32 (as claimed): proposals are presented and dispatched in FIFO order
\* (C32_FifoOrder), and at any time at most one proposal awaits the user's
\* confirmation: no user has two confirmation messages with their buttons.
C32_FifoOneAwaiting ==
    /\ C32_FifoOrder
    /\ [](\A u \in Users : Cardinality(buttons[u]) <= 1)

\* C33: a confirm whose mutation call fails appends one ToolResult with the
\* failure (success false and the error) under the tool-call id of the
\* confirmed head, raises nothing, and goes on as a successful one would:
\* the remaining entries stay queued in order with the next head presented
\* or, if none remain, the follow-up LLM call is made.
C33_FailedDispatchContinues ==
    [][ \A u \in Users :
          (/\ pending_proposals[u] # << >>
           /\ \E pressed \in buttons[u] : handle_confirm(u, pressed, FALSE))
          => LET head == pending_proposals[u][1]
                 rest == Tail(pending_proposals[u])
                 new == NewMessages(u)
             IN  /\ Len(new) = 1
                 /\ new[1].type = "tool"
                 /\ new[1].tool_call_id = head.tool_call_id
                 /\ "error" \in DOMAIN new[1].content
                 /\ "success" \in DOMAIN new[1].content => new[1].content.success = FALSE
                 /\ unhandled' = unhandled
                 /\ pending_proposals'[u] = rest
                 /\ IF rest # << >>
                    THEN /\ pc' = Idle
                         /\ display'[u].kind = "confirmation"
                         /\ display'[u].tool_call_id = rest[1].tool_call_id
                    ELSE /\ pc'.kind = "followup"
                         /\ pc'.user = u
      ]_vars

\* the two proposals of one response were confirmed and both mutation calls
\* failed: the second was presented after the first failure and the
\* follow-up call is about to be made
C33_Witness ==
    /\ pc.kind = "followup"
    /\ \E q1, q2 \in Requests(conversations[pc.user]) :
         /\ q1.id + 1 = q2.id
         /\ RequestPos(conversations[pc.user], q1.id)
                = RequestPos(conversations[pc.user], q2.id)
         /\ ResultsWith(conversations[pc.user], q1.id, "success", FALSE) # {}
         /\ ResultsWith(conversations[pc.user], q2.id, "success", FALSE) # {}
         /\ Len(mutation_calls) = 2

\* C34: the LLM issuing distinct tool-call ids, a user's conversation never
\* holds more than one ToolResult for a tool-call id, whatever reads,
\* rejections, confirms, cancels and change requests have taken place.
C34_AtMostOneToolResult ==
    \A u \in Users :
      \A id \in 1..last_call_id :
        Cardinality(ResultsFor(conversations[u], id)) <= 1

\* of the two proposals of one response the first was confirmed and the
\* second cancelled: each has its one ToolResult
C34_Witness ==
    \E u \in Users :
      \E q1, q2 \in Requests(conversations[u]) :
        /\ q1.id + 1 = q2.id
        /\ RequestPos(conversations[u], q1.id) = RequestPos(conversations[u], q2.id)
        /\ Cardinality(ResultsWith(conversations[u], q1.id, "success", TRUE)) = 1
        /\ Cardinality(ResultsWith(conversations[u], q2.id, "status", "cancelled")) = 1
        /\ pending_proposals[u] = << >>

\* C35: a cancel or a change request calls neither the LLM nor the mutation
\* collaborator: it leaves the handler idle, the queue empty, the session
\* as it was, and appends only ToolResults (one per queued entry for a
\* cancel, one for the head for a change).  No LLM call follows until the
\* user sends a text: an idle bot starts an LLM call only on a user text or
\* on the confirm of the last entry of a queue, and an empty queue is filled
\* only by the response of an LLM call.
C35_CancelChangeNoLLM ==
    /\ [][ \A u \in Users :
             (\/ \E pressed \in buttons[u] : handle_cancel(u, pressed)
              \/ \E pressed \in buttons[u] : handle_change(u, pressed))
             => LET new == NewMessages(u)
                IN  /\ pc' = Idle
                    /\ llm_calls' = 0
                    /\ mutation_calls' = mutation_calls
                    /\ sessions' = sessions
                    /\ last_call_id' = last_call_id
                    /\ pending_proposals'[u] = << >>
                    /\ SubSeq(conversations'[u], 1, Len(conversations[u]))
                           = conversations[u]
                    /\ \A i \in 1..Len(new) :
                           /\ new[i].type = "tool"
                           /\ new[i].tool_call_id \in QueueIds(pending_proposals[u])
         ]_vars
    /\ [][ (pc = Idle /\ pc' # Idle) =>
             \/ \E u \in Users : handle_message(u)
             \/ /\ pc'.kind = "followup"
                /\ Len(pending_proposals[pc'.user]) = 1
                /\ mutation_calls' # mutation_calls
         ]_vars
    /\ [][ \A u \in Users :
             (pending_proposals[u] = << >> /\ pending_proposals'[u] # << >>)
             => (pc.kind \in {"loop", "followup"} /\ llm_calls' = llm_calls + 1)
         ]_vars

\* a queue of two was cancelled before anything was dispatched: the bot is
\* idle, both entries are answered and no LLM call is in progress
C35_Witness ==
    \E u \in Users :
      LET conv == conversations[u]
          n == Len(conv)
      IN  /\ display[u] = TextReply("Cancelled pending actions.")
          /\ pc = Idle
          /\ llm_calls = 0
          /\ mutation_calls = << >>
          /\ pending_proposals[u] = << >>
          /\ n >= 2
          /\ conv[n].type = "tool" /\ conv[n - 1].type = "tool"

\* C36: a kind (calendar, tasks) is fresh iff it was fetched and less than
\* the TTL (two minutes) has passed since: stale before any read and after
\* /start, fresh from the instant of the read, stale at exactly the TTL
\* and later.  The fetch time is only ever unset, or set to the instant of
\* a read.
C36_FreshIffWithinTTL ==
    /\ \A u \in Users :
         /\ ~ is_calendar_fresh(sessions[u], now)
         /\ ~ is_tasks_fresh(sessions[u], now)
    /\ [](\A u \in Users :
            LET s == sessions[u]
            IN  /\ is_calendar_fresh(s, now) <=>
                     \E at \in 0..now :
                        s.calendar_fetched_at = at /\ now - at \in {0, 1}
                /\ is_tasks_fresh(s, now) <=>
                     \E at \in 0..now :
                        s.tasks_fetched_at = at /\ now - at \in {0, 1}
                /\ s.calendar_fetched_at \in {NoneTime} \cup 0..now
                /\ s.tasks_fetched_at \in {NoneTime} \cup 0..now)
    /\ [][ \A u \in Users :
             /\ start_command(u) =>
                   /\ ~ is_calendar_fresh(sessions'[u], now')
                   /\ ~ is_tasks_fresh(sessions'[u], now')
             /\ sessions'[u].calendar_fetched_at # sessions[u].calendar_fetched_at
                   => \/ start_command(u)
                      \/ /\ sessions'[u].calendar_fetched_at = now
                         /\ is_calendar_fresh(sessions'[u], now')
                         /\ CallsOf(NewMessages(u), {"get_calendar_events"}) # {}
             /\ sessions'[u].tasks_fetched_at # sessions[u].tasks_fetched_at
                   => \/ start_command(u)
                      \/ /\ sessions'[u].tasks_fetched_at = now
                         /\ is_tasks_fresh(sessions'[u], now')
                         /\ CallsOf(NewMessages(u), {"get_tasks"}) # {}
         ]_vars

\* exactly the TTL after a calendar read: the calendar is stale
C36_Witness ==
    \E u \in Users :
      /\ sessions[u].calendar_fetched_at # NoneTime
      /\ now - sessions[u].calendar_fetched_at = FRESHNESS_TTL
      /\ ~ is_calendar_fresh(sessions[u], now)

\* one minute after a tasks read, the calendar never read: tasks fresh only
C36_WitnessFresh ==
    \E u \in Users :
      /\ sessions[u].tasks_fetched_at # NoneTime
      /\ now - sessions[u].tasks_fetched_at = 1
      /\ is_tasks_fresh(sessions[u], now)
      /\ ~ is_calendar_fresh(sessions[u], now)

\* C37: a propose_create_task or propose_create_event tool call is not
\* validated against the session: whatever the session holds (nothing read,
\* stale, just cleared, fresh) the call gets no validation-error ToolResult,
\* and it is in the queue when its response has been processed.
C37_CreateSkipsValidation ==
    /\ [][ pc.kind = "loop" =>
             LET u == pc.user
             IN  \A q \in Requests(NewMessages(u)) :
                   q.name \in {"propose_create_task", "propose_create_event"} =>
                     /\ q.id \in QueueIds(pending_proposals'[u])
                     /\ ResultsFor(conversations'[u], q.id) = {}
                     /\ ValidationError(sessions[u], q.name, q.args, now) = ""
         ]_vars
    /\ [](\A u \in Users :
            \A q \in Requests(conversations[u]) :
              q.name \in {"propose_create_task", "propose_create_event"} =>
                \A e \in ErrorResults(conversations[u]) : e.tool_call_id # q.id)

\* a create was queued while nothing had been read, in the response in
\* which a delete was rejected for that reason
C37_Witness ==
    \E u \in Users :
      /\ sessions[u].tasks_fetched_at = NoneTime
      /\ sessions[u].calendar_fetched_at = NoneTime
      /\ \E i \in 1..Len(pending_proposals[u]) :
            pending_proposals[u][i].tool_name = "propose_create_event"
      /\ \E e \in ErrorResults(conversations[u]) : e.content.error = StaleTasks

\* a create was queued on a stale session, two minutes after the reads
C37_WitnessStale ==
    \E u \in Users :
      /\ sessions[u].tasks_fetched_at # NoneTime
      /\ ~ is_tasks_fresh(sessions[u], now)
      /\ \E i \in 1..Len(pending_proposals[u]) :
            pending_proposals[u][i].tool_name = "propose_create_task"

\* the proposal types execute_confirmed_proposal knows
ProposalVariants ==
    {"create_task", "edit_task", "delete_task", "complete_task",
     "create_event", "edit_event", "delete_event"}

\* C38: the confirm of a queued proposal of one of the seven variants
\* makes exactly one mutation call, to the function named as the variant
\* and for the entry confirmed; a proposal of any other type makes none.
C38_OneCallPerVariant ==
    [][ \A u \in Users :
          (/\ \E pressed \in buttons[u], api_ok \in BOOLEAN :
                  handle_confirm(u, pressed, api_ok)
           /\ pending_proposals[u] # << >>)
          => LET current == pending_proposals[u][1]
                 p == current.proposal
                 n == Len(mutation_calls)
             IN  /\ SubSeq(mutation_calls', 1, n) = mutation_calls
                 /\ (p.proposal_type \in ProposalVariants /\ ~RaisesKeyError(p))
                      => /\ Len(mutation_calls') = n + 1
                         /\ mutation_calls'[n + 1].call.fn = p.proposal_type
                         /\ mutation_calls'[n + 1].tool_call_id = current.tool_call_id
                         /\ mutation_calls'[n + 1].user = u
                 /\ p.proposal_type \notin ProposalVariants
                      => mutation_calls' = mutation_calls
      ]_vars

\* a complete_task and a proposal of an unknown type were both confirmed:
\* one call, complete_task, was made
C38_Witness ==
    /\ Len(mutation_calls) = 1
    /\ mutation_calls[1].call.fn = "complete_task"
    /\ \A u \in Users : pending_proposals[u] = << >>
    /\ \E u \in Users :
         \E i \in 1..Len(conversations[u]) :
           /\ conversations[u][i].type = "tool"
           /\ "error" \in DOMAIN conversations[u][i].content
           /\ conversations[u][i].content.error = "Unknown proposal type"

\* C39: however often and in whatever order the jobs fire, a user is
\* delivered at most one daily briefing per date and at most one reminder
\* per event id and date; and every notification delivered within the
\* retention of the sent-records still has its record, which is what makes
\* the next firing skip it.
C39_NotificationsDeduplicated ==
    \A n \in BagToSet(delivered) :
      /\ n.kind \in {"daily_briefing", "event_reminder"} => CopiesIn(n, delivered) = 1
      /\ n.date >= today - days_to_keep =>
            \E r \in sent_reminders :
               /\ r.user_id = n.chat_id
               /\ r.reminder_type = n.kind
               /\ r.reference_id = n.reference_id
               /\ r.reference_date = n.date

\* a briefing and an event reminder were delivered to a user on one date
\* and a briefing on the next date
C39_Witness ==
    \E u \in Users, e \in EventIds :
      /\ today >= 1
      /\ BagIn(Notice(u, "daily_briefing", None, today - 1), delivered)
      /\ BagIn(Notice(u, "event_reminder", e, today - 1), delivered)
      /\ BagIn(Notice(u, "daily_briefing", None, today), delivered)

\* the record of a briefing delivered eight days ago has been cleaned up,
\* and the briefing of the date has been delivered
C39_WitnessCleanup ==
    \E u \in Users :
      /\ BagIn(Notice(u, "daily_briefing", None, today - 8), delivered)
      /\ ~ \E r \in sent_reminders : r.reference_date = today - 8
      /\ BagIn(Notice(u, "daily_briefing", None, today), delivered)

\* the positions of the jobs named for the briefing of u
BriefingJobs(u) ==
    {i \in 1..Len(job_queue) : job_queue[i].name = BriefingJobName(u)}

\* C40: from the jobs scheduled at startup on, through every sequence of
\* settings toggles, exactly one daily briefing job named for a user is
\* scheduled when the user's briefing_enabled is 1, and none when it is 0
\* or the user is not in the table.
C40_BriefingJobIffEnabled ==
    \A u \in Users :
      /\ Cardinality(BriefingJobs(u)) =
            IF u \in DOMAIN users /\ users[u].briefing_enabled = 1 THEN 1 ELSE 0
      /\ \A i \in BriefingJobs(u) :
            job_queue[i].callback = "daily_briefing_job" /\ job_queue[i].chat_id = u

\* the briefing was switched off after a briefing had been delivered: the
\* settings show it off and no briefing job is left
C40_Witness ==
    \E u \in Users :
      /\ u \in DOMAIN users
      /\ users[u].briefing_enabled = 0
      /\ display[u] = SettingsDisplay(users[u])
      /\ BriefingJobs(u) = {}
      /\ \E d \in 0..today : BagIn(Notice(u, "daily_briefing", None, d), delivered)

\* the briefing was switched on by a toggle: its job is the last of the queue
C40_WitnessEnabled ==
    \E u \in Users :
      /\ u \in DOMAIN users
      /\ users[u].briefing_enabled = 1
      /\ job_queue[Len(job_queue)].name = BriefingJobName(u)

====
